---- MODULE Spec2Model ----
(***************************************************************************)
(* A model of SimpleRenderer's framebuffer (src/src/framebuffer.cpp), its  *)
(* copy-assignment operators (framebuffer.cpp, matrix.hpp, model.cpp) and  *)
(* the barycentric test of the default shader (default_shader.cpp).        *)
(*                                                                         *)
(* A buffer is a record [width, height, ptr, cap, arr]: ptr is the state   *)
(* of the color_arr / depth_arr pointer, cap the number of elements of the *)
(* storage it points to (0 when it points to none) and arr the storage, a  *)
(* function on 0..cap-1.  Every C++ function is an operator that returns   *)
(* the object after the call, the error thrown, and the accesses it made   *)
(* through the array pointers, so that an access outside the storage held  *)
(* is visible instead of being an outcome of the model's choosing.         *)
(***************************************************************************)
EXTENDS Integers, Sequences, FiniteSets, TLC

\* ------------------------------------------------------------- bounds
\* Largest width and height of a buffer.
MaxDim == 2
\* Number of operations in a run.
MaxSteps == 2
\* Number of triangles or lines drawn into a cleared framebuffer.
MaxDraws == 2

\* ---------------------------------------------------------- constants
\* color_t::BPP, sizeof(uint8_t) * DEPTH.
BPP == 4
\* sizeof(color_t): four uint8_t channels.
SizeofColor == 4
\* sizeof(depth_t): depth_t is a floating type (std::isnan, interpolation).
SizeofDepth == 4
\* The depth value std::isnan answers true for.
NaN == -1

Colors == {"BLACK", "WHITE"}
\* The default color and depth of the buffer constructors and of clear().
DefaultColor == "BLACK"
DefaultDepth == 0
\* The depth values written: two finite depths and NaN.
Depths == {NaN, 0, 1}
\* The depths pixel() and the accessor write: NaN and a depth other than the
\* default.
WriteDepths == {NaN, 1}
Dims == 0..MaxDim
Coords == 0..MaxDim
\* What an uninitialised uint32_t member may hold.
Indeterminate == 0..MaxDim
Slots == {1, 2}
\* The framebuffer drawn into; the other one is cleared and copied only.
Targets == {1}

isnan(d) == d = NaN

Min(a, b) == IF a < b THEN a ELSE b

\* ----------------------------------------------------- array accesses
\* An access of the elements lo..hi-1 through a pointer in state ptr whose
\* storage holds cap elements.
Ev(kind, ptr, lo, hi, cap) ==
    [kind |-> kind, ptr |-> ptr, lo |-> lo, hi |-> hi, cap |-> cap]

\* The access touches an element outside the storage held (or any element
\* through a pointer that holds none).
Fault(e) == e.hi > e.lo /\ e.hi > e.cap

\* delete[] of a pointer that is not the start of live storage.
BadDelete(e) == e.kind = "delete" /\ e.ptr \notin {"valid"}

Buf(w, h, ptr, cap, arr) ==
    [width |-> w, height |-> h, ptr |-> ptr, cap |-> cap, arr |-> arr]

\* The result of a call: the object after it, the error thrown ("none" when
\* it returned normally) and the array accesses, in program order.
Res(obj, err, evs) == [obj |-> obj, err |-> err, evs |-> evs]

\* `new T[n]`: the pointer and capacity after the try/catch around it; a
\* caught std::bad_alloc leaves the pointer as it was (old).
NewArr(n, ok, old) ==
    IF ok THEN [ptr |-> "valid", cap |-> n] ELSE [ptr |-> old, cap |-> 0]

\* std::fill_n(arr, n, v) on storage s of capacity cap.
FillN(cap, n, v) == [i \in 0..(cap - 1) |-> v]

\* std::copy(src, src + n, dst): the elements of dst that lie inside both
\* storages are overwritten, the others keep what they held.
CopyN(srcArr, srcCap, dstArr, dstCap, n) ==
    [i \in 0..(dstCap - 1) |->
        IF i < n /\ i < srcCap THEN srcArr[i] ELSE dstArr[i]]

\* ------------------------------------------------------ color_buffer_t
\* color_buffer_t(const color_buffer_t&)
ColorBufferCopyCtor(src, ok) ==
    LET w == src.width
        h == src.height
        a == NewArr(w * h, ok, "uninit")
        n == w * h * BPP
        fresh == [i \in 0..(a.cap - 1) |-> DefaultColor]
    IN Res(Buf(w, h, a.ptr, a.cap, CopyN(src.arr, src.cap, fresh, a.cap, n)),
           "none",
           << Ev("read", src.ptr, 0, n, src.cap),
              Ev("write", a.ptr, 0, n, a.cap) >>)

\* color_buffer_t(w, h, color)
ColorBufferCtor(w, h, color, ok) ==
    LET a == NewArr(w * h, ok, "uninit")
    IN Res(Buf(w, h, a.ptr, a.cap, FillN(a.cap, w * h, color)),
           "none",
           << Ev("write", a.ptr, 0, w * h, a.cap) >>)

\* color_buffer_t::operator=
ColorBufferAssign(dst, src, ok) ==
    LET differ == dst.width # src.width \/ dst.height # src.height
        w == src.width
        h == src.height
        a == IF differ THEN NewArr(w * h, ok, "null")
                       ELSE [ptr |-> dst.ptr, cap |-> dst.cap]
        fresh == IF differ THEN [i \in 0..(a.cap - 1) |-> DefaultColor]
                           ELSE dst.arr
        n == w * h * SizeofColor
        del == IF differ /\ dst.ptr # "null"
               THEN << Ev("delete", dst.ptr, 0, 0, dst.cap) >> ELSE << >>
    IN Res(Buf(w, h, a.ptr, a.cap, CopyN(src.arr, src.cap, fresh, a.cap, n)),
           "none",
           del \o << Ev("read", src.ptr, 0, n, src.cap),
                     Ev("write", a.ptr, 0, n, a.cap) >>)

\* color_buffer_t::operator()(x, y), as the left side of an assignment of v.
ColorBufferSet(b, x, y, v) ==
    IF x >= b.width THEN Res(b, "invalid_argument", << >>)
    ELSE IF y >= b.height THEN Res(b, "invalid_argument", << >>)
    ELSE LET idx == y * b.width + x
         IN Res([b EXCEPT !.arr = [i \in 0..(b.cap - 1) |->
                                      IF i = idx THEN v ELSE b.arr[i]]],
                "none",
                << Ev("write", b.ptr, idx, idx + 1, b.cap) >>)

\* clear() that fills the first row only.
ColorBufferClearFirstRow(b, color) ==
    Res([b EXCEPT !.arr = [i \in 0..(b.cap - 1) |->
                             IF i < b.width THEN color ELSE b.arr[i]]],
        "none",
        << Ev("write", b.ptr, 0, b.width, b.cap) >>)

\* color_buffer_t::clear
ColorBufferClear(b, color) ==
    Res([b EXCEPT !.arr = FillN(b.cap, b.width * b.height, color)],
        "none",
        << Ev("write", b.ptr, 0, b.width * b.height, b.cap) >>)

\* ------------------------------------------------------ depth_buffer_t
\* depth_buffer_t(const depth_buffer_t&)
DepthBufferCopyCtor(src, ok) ==
    LET w == src.width
        h == src.height
        a == NewArr(w * h, ok, "uninit")
        n == w * h * SizeofDepth
        fresh == [i \in 0..(a.cap - 1) |-> DefaultDepth]
    IN Res(Buf(w, h, a.ptr, a.cap, CopyN(src.arr, src.cap, fresh, a.cap, n)),
           "none",
           << Ev("read", src.ptr, 0, n, src.cap),
              Ev("write", a.ptr, 0, n, a.cap) >>)

\* depth_buffer_t(w, h, depth)
DepthBufferCtor(w, h, depth, ok) ==
    LET a == NewArr(w * h, ok, "uninit")
    IN Res(Buf(w, h, a.ptr, a.cap, FillN(a.cap, w * h, depth)),
           "none",
           << Ev("write", a.ptr, 0, w * h, a.cap) >>)

\* depth_buffer_t::operator=: the released pointer is not reset, so a failed
\* allocation leaves it dangling.
DepthBufferAssign(dst, src, ok) ==
    LET differ == dst.width # src.width \/ dst.height # src.height
        w == src.width
        h == src.height
        released == IF dst.ptr = "null" THEN "null" ELSE "dangling"
        a == IF differ THEN NewArr(w * h, ok, released)
                       ELSE [ptr |-> dst.ptr, cap |-> dst.cap]
        fresh == IF differ THEN [i \in 0..(a.cap - 1) |-> DefaultDepth]
                           ELSE dst.arr
        n == w * h * SizeofDepth
        del == IF differ /\ dst.ptr # "null"
               THEN << Ev("delete", dst.ptr, 0, 0, dst.cap) >> ELSE << >>
    IN Res(Buf(w, h, a.ptr, a.cap, CopyN(src.arr, src.cap, fresh, a.cap, n)),
           "none",
           del \o << Ev("read", src.ptr, 0, n, src.cap),
                     Ev("write", a.ptr, 0, n, a.cap) >>)

\* depth_buffer_t::operator()(x, y), as the left side of an assignment of v.
DepthBufferSet(b, x, y, v) ==
    IF x >= b.width THEN Res(b, "invalid_argument", << >>)
    ELSE IF y >= b.height THEN Res(b, "invalid_argument", << >>)
    ELSE LET idx == y * b.width + x
         IN Res([b EXCEPT !.arr = [i \in 0..(b.cap - 1) |->
                                      IF i = idx THEN v ELSE b.arr[i]]],
                "none",
                << Ev("write", b.ptr, idx, idx + 1, b.cap) >>)

\* depth_buffer_t::clear
DepthBufferClear(b, depth) ==
    IF isnan(depth) THEN Res(b, "string", << >>)
    ELSE Res([b EXCEPT !.arr = FillN(b.cap, b.width * b.height, depth)],
             "none",
             << Ev("write", b.ptr, 0, b.width * b.height, b.cap) >>)

\* -------------------------------------------------------- framebuffer_t
Fb(w, h, cb, db) ==
    [width |-> w, height |-> h, color_buffer |-> cb, depth_buffer |-> db]

\* framebuffer_t(width, height): both buffers are built in place with the
\* default color and depth.
FramebufferCtor(w, h, okc, okd) ==
    LET c == ColorBufferCtor(w, h, DefaultColor, okc)
        d == DepthBufferCtor(w, h, DefaultDepth, okd)
    IN Res(Fb(w, h, c.obj, d.obj), "none", c.evs \o d.evs)

\* framebuffer_t(const framebuffer_t&): the initialiser list names the two
\* buffers only, so width and height hold indeterminate values w0, h0 when
\* they are compared with the source's.
FramebufferCopyCtor(src, w0, h0, okc, okd) ==
    LET c == ColorBufferCopyCtor(src.color_buffer, okc)
        d == DepthBufferCopyCtor(src.depth_buffer, okd)
        err == IF w0 # src.width THEN "invalid_argument"
               ELSE IF h0 # src.height THEN "invalid_argument"
               ELSE "none"
    IN Res(Fb(w0, h0, c.obj, d.obj), err, c.evs \o d.evs)

\* operator= without the comparison of the heights.
FramebufferAssignNoHeightCheck(dst, src, self, okc, okd) ==
    IF self THEN Res(dst, "runtime_error", << >>)
    ELSE IF dst.width # src.width THEN Res(dst, "invalid_argument", << >>)
    ELSE LET c == ColorBufferAssign(dst.color_buffer, src.color_buffer, okc)
             d == DepthBufferAssign(dst.depth_buffer, src.depth_buffer, okd)
         IN Res([dst EXCEPT !.color_buffer = c.obj, !.depth_buffer = d.obj],
                "none", c.evs \o d.evs)

\* framebuffer_t::operator=; self is `this == &_framebuffer`.
FramebufferAssign(dst, src, self, okc, okd) ==
    IF self THEN Res(dst, "runtime_error", << >>)
    ELSE IF dst.width # src.width THEN Res(dst, "invalid_argument", << >>)
    ELSE IF dst.height # src.height THEN Res(dst, "invalid_argument", << >>)
    ELSE LET c == ColorBufferAssign(dst.color_buffer, src.color_buffer, okc)
             d == DepthBufferAssign(dst.depth_buffer, src.depth_buffer, okd)
         IN Res([dst EXCEPT !.color_buffer = c.obj, !.depth_buffer = d.obj],
                "none", c.evs \o d.evs)

\* clear() that leaves the NaN test to depth_buffer_t::clear.
FramebufferClearLateCheck(f, color, depth) ==
    LET c == ColorBufferClear(f.color_buffer, color)
        d == DepthBufferClear(f.depth_buffer, depth)
    IN Res([f EXCEPT !.color_buffer = c.obj, !.depth_buffer = d.obj],
           d.err, c.evs \o d.evs)

\* framebuffer_t::clear
FramebufferClear(f, color, depth) ==
    IF isnan(depth) THEN Res(f, "string", << >>)
    ELSE LET c == ColorBufferClear(f.color_buffer, color)
             d == DepthBufferClear(f.depth_buffer, depth)
         IN Res([f EXCEPT !.color_buffer = c.obj, !.depth_buffer = d.obj],
                d.err, c.evs \o d.evs)

\* pixel() that clamps an out-of-range coordinate to the last column or row.
FramebufferPixelClamp(f, x, y, color, depth) ==
    IF f.width = 0 \/ f.height = 0 THEN Res(f, "invalid_argument", << >>)
    ELSE IF isnan(depth) THEN Res(f, "string", << >>)
    ELSE LET cx == Min(x, f.width - 1)
             cy == Min(y, f.height - 1)
             c == ColorBufferSet(f.color_buffer, cx, cy, color)
             d == DepthBufferSet(f.depth_buffer, cx, cy, depth)
         IN Res([f EXCEPT !.color_buffer = c.obj, !.depth_buffer = d.obj],
                "none", c.evs \o d.evs)

\* pixel() that tests the depth for NaN after it has written the color.
FramebufferPixelLateCheck(f, x, y, color, depth) ==
    IF x >= f.width THEN Res(f, "invalid_argument", << >>)
    ELSE IF y >= f.height THEN Res(f, "invalid_argument", << >>)
    ELSE LET c == ColorBufferSet(f.color_buffer, x, y, color)
             f1 == [f EXCEPT !.color_buffer = c.obj]
         IN IF isnan(depth) THEN Res(f1, "string", c.evs)
            ELSE LET d == DepthBufferSet(f.depth_buffer, x, y, depth)
                 IN Res([f1 EXCEPT !.depth_buffer = d.obj],
                        "none", c.evs \o d.evs)

\* framebuffer_t::pixel: the three checks, then the color, then the depth,
\* each through the buffer's own checked operator().
FramebufferPixel(f, x, y, color, depth) ==
    IF x >= f.width THEN Res(f, "invalid_argument", << >>)
    ELSE IF y >= f.height THEN Res(f, "invalid_argument", << >>)
    ELSE IF isnan(depth) THEN Res(f, "string", << >>)
    ELSE LET c == ColorBufferSet(f.color_buffer, x, y, color)
         IN IF c.err # "none" THEN Res(f, c.err, c.evs)
            ELSE LET f1 == [f EXCEPT !.color_buffer = c.obj]
                     d == DepthBufferSet(f.depth_buffer, x, y, depth)
                 IN IF d.err # "none" THEN Res(f1, d.err, c.evs \o d.evs)
                    ELSE Res([f1 EXCEPT !.depth_buffer = d.obj],
                             "none", c.evs \o d.evs)

\* framebuffer_t::get_depth_buffer(x, y) (the depth_t& overload) with a
\* value assigned through the reference it returns.
FramebufferDepthRefSet(f, x, y, depth) ==
    LET d == DepthBufferSet(f.depth_buffer, x, y, depth)
    IN Res([f EXCEPT !.depth_buffer = d.obj], d.err, d.evs)

\* color(x, y) and depth(x, y) as the const accessors read them.
ColorAt(b, x, y) == b.arr[y * b.width + x]
DepthAt(b, x, y) == b.arr[y * b.width + x]

\* ------------------------------------------------------------ matrix_t
\* matrix_t::ORDER
ORDER == 4
Idx == 0..(ORDER - 1)

\* matrix_t(): the identity.
MatrixCtor == [i \in Idx |-> [j \in Idx |-> IF i = j THEN 1 ELSE 0]]

HasNaNs(m) == \E i \in Idx, j \in Idx : isnan(m[i][j])

\* operator= that copies without comparing the addresses.
MatrixAssignNoSelfCheck(dst, src, self) ==
    IF HasNaNs(src) THEN Res(dst, "invalid_argument", << >>)
    ELSE Res(src, "none", << >>)

\* matrix_t::operator=
MatrixAssign(dst, src, self) ==
    IF HasNaNs(src) THEN Res(dst, "invalid_argument", << >>)
    ELSE IF self THEN Res(dst, "runtime_error", << >>)
    ELSE Res(src, "none", << >>)

\* m[r][c] = v through matrix_t::operator[], which rejects r > ORDER.
MatrixSet(m, r, c, v) ==
    IF r > ORDER THEN Res(m, "invalid_argument", << >>)
    ELSE Res([i \in Idx |-> [j \in Idx |->
                 IF i = r /\ j = c THEN v ELSE m[i][j]]],
             "none", << Ev("write", "valid", r * ORDER + c,
                           r * ORDER + c + 1, ORDER * ORDER) >>)

\* ------------------------------------------------------------- model_t
\* model_t::material_t::operator=
MaterialAssign(dst, src, self) ==
    IF self THEN Res(dst, "none", << >>)
    ELSE Res([shininess |-> src.shininess, ambient |-> src.ambient,
              diffuse |-> src.diffuse, specular |-> src.specular],
             "none", << >>)

\* model_t::vertex_t::operator=
VertexAssign(dst, src, self) ==
    IF self THEN Res(dst, "none", << >>)
    ELSE Res([coord |-> src.coord, normal |-> src.normal,
              texcoord |-> src.texcoord, color |-> src.color],
             "none", << >>)

\* model_t::face_t::operator=, member by member through the operators above.
FaceAssign(dst, src, self) ==
    IF self THEN Res(dst, "none", << >>)
    ELSE Res([v0 |-> VertexAssign(dst.v0, src.v0, FALSE).obj,
              v1 |-> VertexAssign(dst.v1, src.v1, FALSE).obj,
              v2 |-> VertexAssign(dst.v2, src.v2, FALSE).obj,
              normal |-> src.normal,
              material |-> MaterialAssign(dst.material, src.material,
                                          FALSE).obj],
             "none", << >>)

\* model_t::box_t::operator=
BoxAssign(dst, src, self) ==
    IF self THEN Res(dst, "none", << >>)
    ELSE Res([min |-> src.min, max |-> src.max], "none", << >>)

\* model_t::operator=
ModelAssign(dst, src, self) ==
    IF self THEN Res(dst, "none", << >>)
    ELSE Res([face |-> src.face, box |-> BoxAssign(dst.box, src.box,
                                                   FALSE).obj],
             "none", << >>)

\* The copy-assignment operator of each type.
AssignOf(type, dst, src, self) ==
    CASE type = "matrix" -> MatrixAssign(dst, src, self)
      [] type = "material" -> MaterialAssign(dst, src, self)
      [] type = "vertex" -> VertexAssign(dst, src, self)
      [] type = "face" -> FaceAssign(dst, src, self)
      [] type = "box" -> BoxAssign(dst, src, self)
      [] type = "model" -> ModelAssign(dst, src, self)

Types == {"matrix", "material", "vertex", "face", "box", "model"}
ModelTypes == Types \ {"matrix"}

\* Two objects of every type that differ in every member.
SampleVec(s) == IF s = 1 THEN << 0, 0, 0, 1 >> ELSE << 1, 2, 3, 1 >>
SampleMaterial(s) ==
    [shininess |-> s, ambient |-> SampleVec(s), diffuse |-> SampleVec(s),
     specular |-> SampleVec(s)]
SampleVertex(s) ==
    [coord |-> SampleVec(s), normal |-> SampleVec(s),
     texcoord |-> << s, s >>, color |-> SampleVec(s)]
SampleFace(s) ==
    [v0 |-> SampleVertex(s), v1 |-> SampleVertex(3 - s),
     v2 |-> SampleVertex(s), normal |-> SampleVec(s),
     material |-> SampleMaterial(s)]
SampleBox(s) == [min |-> SampleVec(1), max |-> SampleVec(s)]
SampleModel(s) ==
    [face |-> IF s = 1 THEN << SampleFace(1) >>
                       ELSE << SampleFace(2), SampleFace(1) >>,
     box |-> SampleBox(s)]

InitObjs ==
    [t \in Types |-> [s \in Slots |->
        CASE t = "matrix" -> MatrixCtor
          [] t = "material" -> SampleMaterial(s)
          [] t = "vertex" -> SampleVertex(s)
          [] t = "face" -> SampleFace(s)
          [] t = "box" -> SampleBox(s)
          [] t = "model" -> SampleModel(s)]]

\* ------------------------------------------------- single precision
\* The coordinates are floats.  A float of integer value is the integer; a
\* quotient is sign * m * 2^e.  Every operation rounds its exact result to
\* 24 significant bits, ties to even.
Abs(n) == IF n < 0 THEN -n ELSE n
Sgn(n) == IF n < 0 THEN -1 ELSE 1
Mantissa == 24

RECURSIVE BitLen(_)
BitLen(n) == IF n = 0 THEN 0 ELSE 1 + BitLen(n \div 2)

\* q + r/d rounded to an integer, 0 <= r < d.
RoundNearestEven(q, r, d) ==
    IF 2 * r > d \/ (2 * r = d /\ q % 2 = 1) THEN q + 1 ELSE q

\* The float nearest to the integer n.
Round24(n) ==
    IF BitLen(Abs(n)) <= Mantissa THEN n
    ELSE LET unit == 2 ^ (BitLen(Abs(n)) - Mantissa)
         IN  Sgn(n) * unit
               * RoundNearestEven(Abs(n) \div unit, Abs(n) % unit, unit)

FMul(a, b) == Round24(a * b)
FSub(a, b) == Round24(a - b)

RECURSIVE Canon(_, _, _)
Canon(sign, m, e) ==
    IF m = 0 THEN [sign |-> 1, m |-> 0, e |-> 0]
    ELSE IF m % 2 = 0 THEN Canon(sign, m \div 2, e + 1)
    ELSE [sign |-> sign, m |-> m, e |-> e]

\* Long division: q and the remainder r of n / d, shifted left until q has
\* 24 bits, then rounded.
RECURSIVE DivLoop(_, _, _, _, _)
DivLoop(sign, q, r, e, d) ==
    IF q >= 2 ^ (Mantissa - 1)
    THEN Canon(sign, RoundNearestEven(q, r, d), e)
    ELSE LET bit == IF 2 * r >= d THEN 1 ELSE 0
         IN  DivLoop(sign, 2 * q + bit, 2 * r - bit * d, e - 1, d)

\* The float nearest to n / d, for floats n and d # 0 of integer value.
FDiv(n, d) ==
    LET sign == Sgn(n) * Sgn(d)
        q0 == Abs(n) \div Abs(d)
        r0 == Abs(n) % Abs(d)
    IN  IF n = 0 THEN Canon(1, 0, 0)
        ELSE IF BitLen(q0) > Mantissa
        THEN LET unit == 2 ^ (BitLen(q0) - Mantissa)
                 rem == q0 % unit
                 q == q0 \div unit
                 up == \/ 2 * rem > unit
                       \/ 2 * rem = unit /\ (r0 > 0 \/ q % 2 = 1)
             IN  Canon(sign, IF up THEN q + 1 ELSE q,
                       BitLen(q0) - Mantissa)
        ELSE DivLoop(sign, q0, r0, 0, Abs(d))

\* a <= b for floats a, b >= 0 in canonical form.
FLeq(a, b) ==
    IF a.m = 0 THEN TRUE
    ELSE IF b.m = 0 THEN FALSE
    ELSE IF BitLen(a.m) + a.e # BitLen(b.m) + b.e
    THEN BitLen(a.m) + a.e < BitLen(b.m) + b.e
    ELSE IF a.e >= b.e THEN a.m * 2 ^ (a.e - b.e) <= b.m
    ELSE a.m <= b.m * 2 ^ (b.e - a.e)

FOne == [sign |-> 1, m |-> 1, e |-> 0]

\* 0 <= f <= 1
InUnit(f) == (f.m = 0 \/ f.sign = 1) /\ FLeq(f, FOne)

\* 1 - f for a float 0 <= f <= 1, rounded.  The difference is exact when f
\* is a multiple of 2^-24; below 2^-25 it rounds to 1; otherwise it is over
\* 1/2 and is rounded to a multiple of 2^-24.
OneMinus(f) ==
    IF f.m = 0 \/ BitLen(f.m) + f.e <= -(Mantissa + 1) THEN FOne
    ELSE IF f.e >= -Mantissa THEN Canon(1, 2 ^ (-f.e) - f.m, f.e)
    ELSE LET unit == 2 ^ (-Mantissa - f.e)
         IN  Canon(1, RoundNearestEven(2 ^ Mantissa - (f.m \div unit) - 1,
                                       unit - (f.m % unit), unit),
                   -Mantissa)

\* A float m * 2^e, m # 0, with m shifted to exactly 24 bits.
NormM(f) == f.m * 2 ^ (Mantissa - BitLen(f.m))
NormE(f) == f.e - (Mantissa - BitLen(f.m))

\* The integer n * 2^e rounded to 24 bits.
RoundF(sign, n, e) ==
    IF BitLen(n) <= Mantissa THEN Canon(sign, n, e)
    ELSE LET unit == 2 ^ (BitLen(n) - Mantissa)
         IN  Canon(sign, RoundNearestEven(n \div unit, n % unit, unit),
                   e + BitLen(n) - Mantissa)

\* |a| + |b| (add) or |a| - |b| (~add) for floats |a| >= |b| > 0, rounded:
\* three guard bits, the bits of b shifted out kept as a sticky bit.
AddMag(sign, a, b, add) ==
    LET gap == NormE(a) - NormE(b)
        b8 == NormM(b) * 8
        q == IF gap > Mantissa + 3 THEN 0 ELSE b8 \div 2 ^ gap
        sticky == gap > Mantissa + 3 \/ b8 % 2 ^ gap # 0
        bb == IF sticky /\ q % 2 = 0 THEN q + 1 ELSE q
    IN  RoundF(sign, IF add THEN NormM(a) * 8 + bb ELSE NormM(a) * 8 - bb,
               NormE(a) - 3)

FAbs(f) == [f EXCEPT !.sign = 1]
FNeg(f) == IF f.m = 0 THEN f ELSE [f EXCEPT !.sign = -f.sign]

\* a + b, rounded.
FAddF(a, b) ==
    IF a.m = 0 THEN b
    ELSE IF b.m = 0 THEN a
    ELSE IF a.sign = b.sign
    THEN (IF FLeq(FAbs(b), FAbs(a)) THEN AddMag(a.sign, a, b, TRUE)
          ELSE AddMag(a.sign, b, a, TRUE))
    ELSE IF FAbs(a) = FAbs(b) THEN Canon(1, 0, 0)
    ELSE IF FLeq(FAbs(b), FAbs(a)) THEN AddMag(a.sign, a, b, FALSE)
    ELSE AddMag(b.sign, b, a, FALSE)

FSubF(a, b) == FAddF(a, FNeg(b))

\* d * f for a float d of small integer value, rounded.
FMulInt(d, f) == RoundF(Sgn(d) * f.sign, Abs(d) * f.m, f.e)

\* The float of the integer n.
FInt(n) == RoundF(Sgn(n), Abs(n), 0)

FZero == FInt(0)

\* numeric_limits<float>::epsilon(): 2^-23.
Epsilon == [sign |-> 1, m |-> 1, e |-> -(Mantissa - 1)]

\* a * b, rounded.  A product over 31 bits is built from the halves of the
\* mantissas as hi * 2^24 + lo and cut to 30 bits, the bits cut off kept as
\* a sticky bit.
FMulF(a, b) ==
    IF a.m = 0 \/ b.m = 0 THEN FZero
    ELSE IF BitLen(a.m) + BitLen(b.m) <= 31
    THEN RoundF(a.sign * b.sign, a.m * b.m, a.e + b.e)
    ELSE LET half == 2 ^ (Mantissa \div 2)
             a1 == a.m \div half
             a0 == a.m % half
             b1 == b.m \div half
             b0 == b.m % half
             mid == a1 * b0 + a0 * b1
             low == (mid % half) * half + a0 * b0
             hi == a1 * b1 + (mid \div half) + (low \div 2 ^ Mantissa)
             lo == low % 2 ^ Mantissa
             k == 30 - BitLen(hi)
             v == hi * 2 ^ k + (lo \div 2 ^ (Mantissa - k))
             sticky == lo % 2 ^ (Mantissa - k) # 0
         IN  RoundF(a.sign * b.sign,
                    IF sticky /\ v % 2 = 0 THEN v + 1 ELSE v,
                    a.e + b.e + Mantissa - k)

\* 1 / f for a float f # 0, rounded.
FRecip(f) ==
    LET q == FDiv(f.sign, f.m)
    IN  [q EXCEPT !.e = q.e - f.e]

\* The order of the floats >= 0 as integers: the bits of the float, exponent
\* biased by 127 over the 23 bits of the fraction.
FloatBits(f) ==
    IF f.m = 0 THEN 0
    ELSE (NormE(f) + 150) * 2 ^ (Mantissa - 1)
            + (NormM(f) - 2 ^ (Mantissa - 1))

\* ------------------------------------------------------ default_shader_t
Point(x, y) == [x |-> x, y |-> y]

\* vector4f_t::operator-, on the two components the test reads.
VecSub(a, b) == Point(FSub(a.x, b.x), FSub(a.y, b.y))

BaryResult(success, deno, divided, s, t) ==
    [called |-> TRUE, success |-> success, deno |-> deno,
     divided |-> divided, s |-> s, t |-> t]

\* default_shader_t::get_barycentric_coord.  divided says whether the two
\* divisions by deno were made.  The first
\* weight 1 - s - t is (1 - s) - t in floats: it is >= 0 exactly when
\* fl(1 - s) >= t, and it is <= 1 whenever s and t are in [0, 1].
GetBarycentricCoord(p0, p1, p2, p) ==
    LET ab == VecSub(p1, p0)
        ac == VecSub(p2, p0)
        ap == VecSub(p, p0)
        deno == FSub(FMul(ab.x, ac.y), FMul(ab.y, ac.x))
        s == FDiv(FSub(FMul(ac.y, ap.x), FMul(ac.x, ap.y)), deno)
        t == FDiv(FSub(FMul(ab.x, ap.y), FMul(ab.y, ap.x)), deno)
    IN  IF deno = 0
        THEN BaryResult(FALSE, deno, FALSE, Canon(1, 0, 0), Canon(1, 0, 0))
        ELSE BaryResult(InUnit(s) /\ InUnit(t) /\ FLeq(t, OneMinus(s)),
                        deno, TRUE, s, t)

\* The weights (1 - s - t, s, t) of a result.
Weights(r) == << FSubF(FSubF(FOne, r.s), r.t), r.s, r.t >>

\* default_shader_t::interpolate_depth, for vertex depths of small integer
\* value.
InterpolateDepth(depth0, depth1, depth2, w) ==
    FAddF(FAddF(FMulInt(depth0, w[1]), FMulInt(depth1, w[2])),
          FMulInt(depth2, w[3]))

\* The coordinates the points are drawn from: small ones, and large ones
\* whose differences need more than 24 bits.
BaryXs == {-1, 0, 1, 10066334, 16777224}
BaryYs == {0, 3, 5}
BaryPoints == {Point(x, y) : x \in BaryXs, y \in BaryYs}

\* The pixel centres of a 4x4 framebuffer.
PixelPoints == {Point(x, y) : x \in 0..3, y \in 0..3}

BaryCase(x0, y0, x1, y1, x2, y2, x, y) ==
    [p0 |-> Point(x0, y0), p1 |-> Point(x1, y1), p2 |-> Point(x2, y2),
     p |-> Point(x, y)]

\* Triangles of the size of a large screen, with a pixel next to an edge.
BaryLargeCases ==
    {BaryCase(757, 333, 6556, 4519, 3515, 3775, 3936, 3878),
     BaryCase(411, 1135, 5585, 4467, 4602, 8074, 5461, 4922),
     BaryCase(8187, 212, 1282, 8181, 7165, 7418, 3518, 7891),
     BaryCase(3238, 30, 7796, 8084, 1994, 6756, 5712, 7607)}

\* The arguments the test is called with.
BaryInputs ==
    [p0 : BaryPoints, p1 : BaryPoints, p2 : BaryPoints, p : BaryPoints]
        \cup [p0 : PixelPoints, p1 : PixelPoints, p2 : PixelPoints,
              p : PixelPoints]
        \cup BaryLargeCases

NoTriangle == [p0 |-> Point(0, 0), p1 |-> Point(0, 0), p2 |-> Point(0, 0),
               p |-> Point(0, 0)]
NoResult == [called |-> FALSE, success |-> FALSE, deno |-> 0,
             divided |-> FALSE, s |-> Canon(1, 0, 0), t |-> Canon(1, 0, 0)]

\* ---------------------------------------------------------- draw3d_t
\* The framebuffer of the drawing scenarios is 4x4, cleared to a color and
\* to the farthest depth, +infinity, before anything is drawn.
DrawDim == 4
FarDepth == 255 * 2 ^ (Mantissa - 1)

Vertex(x, y, z) == [x |-> x, y |-> y, z |-> z]
Tri(v0, v1, v2, color) == [v0 |-> v0, v1 |-> v1, v2 |-> v2, color |-> color]

Max(a, b) == IF a > b THEN a ELSE b
Min3(a, b, c) == Min(a, Min(b, c))
Max3(a, b, c) == Max(a, Max(b, c))

\* The bounding box of the three vertices, clipped to the framebuffer.
BoxX(f, t) == Max(0, Min3(t.v0.x, t.v1.x, t.v2.x))
                ..Min(f.width - 1, Max3(t.v0.x, t.v1.x, t.v2.x))
BoxY(f, t) == Max(0, Min3(t.v0.y, t.v1.y, t.v2.y))
                ..Min(f.height - 1, Max3(t.v0.y, t.v1.y, t.v2.y))

\* The bounding box clipped at 0 only.
BoxXNoClip(f, t) == Max(0, Min3(t.v0.x, t.v1.x, t.v2.x))
                       ..Max3(t.v0.x, t.v1.x, t.v2.x)

\* The pixels of the box xs x ys in the order of the scan: x outside, y
\* inside.
ScanOrder(xs, ys) ==
    IF xs = {} \/ ys = {} THEN << >>
    ELSE LET x0 == CHOOSE x \in xs : \A u \in xs : x <= u
             y0 == CHOOSE y \in ys : \A u \in ys : y <= u
             ny == Cardinality(ys)
         IN  [k \in 1..(Cardinality(xs) * ny) |->
                 Point(x0 + ((k - 1) \div ny), y0 + ((k - 1) % ny))]

PixelCall(x, y, err) == [kind |-> "pixel", x |-> x, y |-> y, err |-> err]

\* The write of a pixel that passed the tests.
WritePixel(p, w) == Res(w.obj, w.err, << PixelCall(p.x, p.y, w.err) >>)

\* The depth test (smaller is nearer), then the write of color and depth.
DepthTest(f, t, p, z) ==
    IF ~(z < DepthAt(f.depth_buffer, p.x, p.y)) THEN Res(f, "none", << >>)
    ELSE WritePixel(p, FramebufferPixel(f, p.x, p.y, t.color, z))

\* The pixel p with the result b of the barycentric test.
Shade(f, t, p, b) ==
    IF ~b.success THEN Res(f, "none", << >>)
    ELSE IF p.x >= f.width \/ p.y >= f.height
    THEN Res(f, "invalid_argument", << PixelCall(p.x, p.y,
                                                 "invalid_argument") >>)
    ELSE DepthTest(f, t, p,
                   FloatBits(InterpolateDepth(t.v0.z, t.v1.z, t.v2.z,
                                              Weights(b))))

\* One pixel of the scan: the barycentric test, the interpolated depth, the
\* depth test and the write.
DrawPixel(f, t, p) == Shade(f, t, p, GetBarycentricCoord(t.v0, t.v1, t.v2, p))

RECURSIVE Scan(_, _, _, _)
Scan(f, t, pixels, evs) ==
    IF pixels = << >> THEN Res(f, "none", evs)
    ELSE LET r == DrawPixel(f, t, Head(pixels))
         IN  IF r.err # "none" THEN Res(r.obj, r.err, evs \o r.evs)
             ELSE Scan(r.obj, t, Tail(pixels), evs \o r.evs)

\* draw3d_t::triangle that scans the whole width of the bounding box.
TriangleNoClip(f, t) == Scan(f, t, ScanOrder(BoxXNoClip(f, t), BoxY(f, t)), << >>)

\* draw3d_t::triangle
Triangle(f, t) == Scan(f, t, ScanOrder(BoxX(f, t), BoxY(f, t)), << >>)

\* The loop of the line over the long axis a, with b the short axis: the
\* pixel, then the error term and the step of b.
RECURSIVE LineLoop(_, _, _, _, _, _, _, _, _, _, _)
LineLoop(f, a, a1, b, error2, derror2, dx, sb, steep, color, evs) ==
    IF a > a1 THEN Res(f, "none", evs)
    ELSE LET x == IF steep THEN b ELSE a
             y == IF steep THEN a ELSE b
             w == FramebufferPixel(f, x, y, color, DefaultDepth)
             e == error2 + derror2
         IN  IF w.err # "none"
             THEN Res(w.obj, w.err, evs \o << PixelCall(x, y, w.err) >>)
             ELSE LineLoop(w.obj, a + 1, a1,
                           IF e > dx THEN b + sb ELSE b,
                           IF e > dx THEN e - 2 * dx ELSE e,
                           derror2, dx, sb, steep, color,
                           evs \o << PixelCall(x, y, "none") >>)

\* The line from (a0, b0) to (a1, b1), a the long axis, a0 <= a1.
LineOrdered(f, a0, b0, a1, b1, steep, color) ==
    LineLoop(f, a0, a1, b0, 0, 2 * Abs(b1 - b0), a1 - a0,
             IF b1 > b0 THEN 1 ELSE -1, steep, color, << >>)

\* The line with the axes exchanged when it is steep.
LineAxes(f, a0, b0, a1, b1, steep, color) ==
    IF a0 > a1 THEN LineOrdered(f, a1, b1, a0, b0, steep, color)
    ELSE LineOrdered(f, a0, b0, a1, b1, steep, color)

\* draw3d_t::line that does not exchange the end points when the first one
\* is to the right.
LineNoSwap(f, x0, y0, x1, y1, color) ==
    IF Abs(x0 - x1) < Abs(y0 - y1)
    THEN LineOrdered(f, y0, x0, y1, x1, TRUE, color)
    ELSE LineOrdered(f, x0, y0, x1, y1, FALSE, color)

\* draw3d_t::line, Bresenham's algorithm on integers.
Line(f, x0, y0, x1, y1, color) ==
    IF Abs(x0 - x1) < Abs(y0 - y1)
    THEN LineAxes(f, y0, x0, y1, x1, TRUE, color)
    ELSE LineAxes(f, x0, y0, x1, y1, FALSE, color)

\* The triangles drawn.  Vertex depths are 0, 1 or 2.
\*  1: the triangle (0,0)-(3,0)-(0,3), near
\*  2: a triangle over the whole framebuffer and beyond it, far
\*  3: a triangle of the other winding order with three different depths
\*  4: three vertices on the diagonal
\*  5: three coincident vertices
\*  6: three vertices on one line, two of them far to the right
\*  7: a triangle wholly outside the framebuffer
\*  8: a triangle with negative and over-large coordinates
DrawTris ==
    << Tri(Vertex(0, 0, 1), Vertex(3, 0, 1), Vertex(0, 3, 1), "WHITE"),
       Tri(Vertex(-1, -1, 2), Vertex(8, -1, 2), Vertex(-1, 8, 2), "RED"),
       Tri(Vertex(3, 3, 0), Vertex(3, 0, 1), Vertex(1, 3, 2), "GREEN"),
       Tri(Vertex(0, 0, 1), Vertex(1, 1, 1), Vertex(3, 3, 1), "WHITE"),
       Tri(Vertex(2, 2, 1), Vertex(2, 2, 1), Vertex(2, 2, 1), "WHITE"),
       Tri(Vertex(1, 0, 1), Vertex(10066336, 3, 1), Vertex(16777226, 5, 1),
           "WHITE"),
       Tri(Vertex(5, 5, 1), Vertex(9, 5, 1), Vertex(5, 9, 1), "WHITE"),
       Tri(Vertex(-2, 1, 1), Vertex(6, 2, 1), Vertex(1, 7, 1), "GREEN") >>

TriIds == 1..Len(DrawTris)

\* line is the end points << x0, y0, x1, y1 >> of the line drawn, if any.
SceneOf(color, tris) == [color |-> color, tris |-> tris, line |-> << >>]
NoScene == [s \in Slots |-> SceneOf(DefaultColor, << >>)]

\* ---------------------------------------------------------- matrix4f_t
\* matrix_t<float>: a function on Idx of rows of floats.  A NaN entry is
\* FNaN, which no arithmetic is done on.
FNaN == [sign |-> 0, m |-> 0, e |-> 0]

HasNaNsF(mat) == \E i \in Idx, j \in Idx : mat[i][j] = FNaN

\* matrix_t(): the identity, in floats.
Identity4f == [i \in Idx |-> [j \in Idx |-> FInt(MatrixCtor[i][j])]]

\* matrix_t::cofactor: the minor of the leading order x order block without
\* row `row` and column `col`, in the upper left of a zeroed matrix.
Cofactor(mat, row, col, order) ==
    [r \in Idx |-> [c \in Idx |->
        IF r < order - 1 /\ c < order - 1
        THEN mat[IF r < row THEN r ELSE r + 1][IF c < col THEN c ELSE c + 1]
        ELSE FZero]]

\* matrix_t::determ: the expansion along row 0, the terms added in order.
RECURSIVE Determ(_, _)
RECURSIVE DetermLoop(_, _, _, _, _)
DetermLoop(mat, order, i, sign, res) ==
    IF i = order THEN res
    ELSE DetermLoop(mat, order, i + 1, -sign,
                    FAddF(res, FMulF(FMulInt(sign, mat[0][i]),
                                     Determ(Cofactor(mat, 0, i, order),
                                            order - 1))))

Determ(mat, order) ==
    IF order = 1 THEN mat[0][0] ELSE DetermLoop(mat, order, 0, 1, FZero)

\* matrix_t::adjoint: the signed minors, transposed.
Adjoint(mat) ==
    [j \in Idx |-> [i \in Idx |->
        FMulInt(IF (i + j) % 2 = 0 THEN 1 ELSE -1,
                Determ(Cofactor(mat, i, j, ORDER), ORDER - 1))]]

\* operator*(matrix, scalar)
MatScalar(mat, v) == [i \in Idx |-> [j \in Idx |-> FMulF(v, mat[i][j])]]

\* The sum of a[i][k] * b[k][j] over k, added in order from 0.
RECURSIVE Dot(_, _, _, _, _, _)
Dot(a, b, i, j, k, acc) ==
    IF k = ORDER THEN acc
    ELSE Dot(a, b, i, j, k + 1, FAddF(acc, FMulF(a[i][k], b[k][j])))

\* matrix_t::operator*(matrix): a * b.  A NaN in a is not looked for, but
\* it is in the product, which matrix_t(tmp) then rejects.
MatMul(a, b) ==
    IF HasNaNsF(b) THEN Res(a, "invalid_argument", << >>)
    ELSE IF HasNaNsF(a) THEN Res(a, "invalid_argument", << >>)
    ELSE Res([i \in Idx |-> [j \in Idx |-> Dot(a, b, i, j, 0, FZero)]],
             "none", << >>)

\* matrix_t::operator==: every entry within epsilon.
MatEq(a, b) ==
    \A i \in Idx, j \in Idx : FLeq(FAbs(FSubF(a[i][j], b[i][j])), Epsilon)

\* inverse() that takes the signed minors without transposing them.
InverseNoTranspose(mat) ==
    IF HasNaNsF(mat) THEN Res(mat, "invalid_argument", << >>)
    ELSE LET det == Determ(mat, ORDER)
         IN  IF FLeq(FAbs(det), Epsilon)
             THEN Res(mat, "runtime_error", << >>)
             ELSE LET adj == Adjoint(mat)
                  IN  Res(MatScalar([i \in Idx |-> [j \in Idx |-> adj[j][i]]],
                                    FRecip(det)),
                          "none", << >>)

\* matrix_t::inverse
Inverse(mat) ==
    IF HasNaNsF(mat) THEN Res(mat, "invalid_argument", << >>)
    ELSE LET det == Determ(mat, ORDER)
         IN  IF FLeq(FAbs(det), Epsilon)
             THEN Res(mat, "runtime_error", << >>)
             ELSE Res(MatScalar(Adjoint(mat), FRecip(det)), "none", << >>)

\* The identity with column 3 set to (x, y, z).
TranslationOf(x, y, z) ==
    [i \in Idx |-> [j \in Idx |->
        IF j = 3 /\ i < 3 THEN << x, y, z >>[i + 1] ELSE Identity4f[i][j]]]

\* The identity with the diagonal set to (x, y, z, 1).
ScaleOf(x, y, z) ==
    [i \in Idx |-> [j \in Idx |->
        IF i = j /\ i < 3 THEN << x, y, z >>[i + 1] ELSE Identity4f[i][j]]]

\* translate() that multiplies on the other side: *this * tmp.
TranslatePostMultiply(mat, x, y, z) ==
    IF x = FNaN \/ y = FNaN \/ z = FNaN
    THEN Res(mat, "invalid_argument", << >>)
    ELSE IF HasNaNsF(mat) THEN Res(mat, "invalid_argument", << >>)
    ELSE MatMul(mat, TranslationOf(x, y, z))

\* matrix_t::translate
Translate(mat, x, y, z) ==
    IF x = FNaN \/ y = FNaN \/ z = FNaN
    THEN Res(mat, "invalid_argument", << >>)
    ELSE MatMul(TranslationOf(x, y, z), mat)

\* matrix_t::scale(_scale)
Scale(mat, scale) ==
    IF scale = FNaN THEN Res(mat, "invalid_argument", << >>)
    ELSE MatMul(ScaleOf(scale, scale, scale), mat)

\* matrix_t::scale(_x, _y, _z)
Scale3(mat, x, y, z) ==
    IF x = FNaN \/ y = FNaN \/ z = FNaN
    THEN Res(mat, "invalid_argument", << >>)
    ELSE MatMul(ScaleOf(x, y, z), mat)

\* The float angles 0, pi/2 and pi, and what std::cos and std::sin return
\* for them.
HalfPi == [sign |-> 1, m |-> 13176795, e |-> -23]
Pi == [sign |-> 1, m |-> 13176795, e |-> -22]

Cos(angle) ==
    CASE angle = FZero -> FOne
      [] angle = HalfPi -> [sign |-> -1, m |-> 6151831, e |-> -47]
      [] angle = Pi -> FNeg(FOne)

Sin(angle) ==
    CASE angle = FZero -> FZero
      [] angle = HalfPi -> FOne
      [] angle = Pi -> [sign |-> -1, m |-> 6151831, e |-> -46]

\* The root of a square.
Sqrt(n) == CHOOSE r \in 0..n : r * r = n

\* vector4_t::normalize of (x, y, z), floats of integer value whose length
\* is one too: each component divided by the length.
Normalize(x, y, z) ==
    LET len == Sqrt(x * x + y * y + z * z)
    IN  << FDiv(x, len), FDiv(y, len), FDiv(z, len) >>

\* The matrix rotate() builds: its nine entries as the code computes them.
RotationOf(x, y, z, angle) ==
    LET n == Normalize(x, y, z)
        c == Cos(angle)
        s == Sin(angle)
        k == FSubF(FOne, c)
        sq(a, b) == FMulF(FMulF(n[a], n[b]), k)
        r == << << FAddF(sq(1, 1), c),
                   FSubF(sq(2, 1), FMulF(s, n[3])),
                   FAddF(sq(3, 1), FMulF(s, n[2])) >>,
                << FAddF(sq(1, 2), FMulF(s, n[3])),
                   FAddF(sq(2, 2), c),
                   FSubF(sq(3, 2), FMulF(s, n[1])) >>,
                << FSubF(sq(1, 3), FMulF(s, n[2])),
                   FAddF(sq(2, 3), FMulF(s, n[1])),
                   FAddF(sq(3, 3), c) >> >>
    IN  [i \in Idx |-> [j \in Idx |->
            IF i < 3 /\ j < 3 THEN r[i + 1][j + 1] ELSE Identity4f[i][j]]]

\* matrix_t::rotate
Rotate(mat, x, y, z, angle) ==
    IF angle = FNaN THEN Res(mat, "invalid_argument", << >>)
    ELSE MatMul(RotationOf(x, y, z, angle), mat)

\* The matrix of rows of integers.
FromRows(rows) == [i \in Idx |-> [j \in Idx |-> FInt(rows[i + 1][j + 1])]]

\* ------------------------------------------- matrix_t arithmetic, NaN
\* Float arithmetic on operands that may be NaN: a NaN operand gives NaN.
NAdd(a, b) == IF a = FNaN \/ b = FNaN THEN FNaN ELSE FAddF(a, b)
NSub(a, b) == IF a = FNaN \/ b = FNaN THEN FNaN ELSE FSubF(a, b)
NMul(a, b) == IF a = FNaN \/ b = FNaN THEN FNaN ELSE FMulF(a, b)

\* A vector4_t is << x, y, z, w >>.  vector4_t::HasNaNs
VecHasNaNs(v) == \E k \in 1..4 : v[k] = FNaN

\* What a call leaves and returns: its left matrix operand, its vector
\* operand, and the value returned.
Outcome(m, v, out) == [m |-> m, v |-> v, out |-> out]
NoOut == [kind |-> "none"]
OutMatrix(m) == [kind |-> "matrix", m |-> m]
OutVector(v) == [kind |-> "vector", v |-> v]
OutBool(b) == [kind |-> "bool", b |-> b]

Thrown(a, v) == Res(Outcome(a, v, NoOut), "invalid_argument", << >>)

\* return matrix_t<_T>(tmp): the array constructor rejects a NaN.
ReturnMatrix(a, v, tmp) ==
    IF HasNaNsF(tmp) THEN Thrown(a, v)
    ELSE Res(Outcome(a, v, OutMatrix(tmp)), "none", << >>)

Sum(a, b) == [i \in Idx |-> [j \in Idx |-> NAdd(a[i][j], b[i][j])]]
Difference(a, b) == [i \in Idx |-> [j \in Idx |-> NSub(a[i][j], b[i][j])]]
Times(a, x) == [i \in Idx |-> [j \in Idx |-> NMul(a[i][j], x)]]
ProductN(a, b) ==
    [i \in Idx |-> [j \in Idx |->
        NAdd(NAdd(NAdd(NAdd(FZero, NMul(a[i][0], b[0][j])),
                       NMul(a[i][1], b[1][j])),
                  NMul(a[i][2], b[2][j])),
             NMul(a[i][3], b[3][j]))]]
Transposed(a) == [i \in Idx |-> [j \in Idx |-> a[j][i]]]

\* v.x * c[0] + v.y * c[1] + v.z * c[2] + v.w * c[3]
Along(v, c) ==
    NAdd(NAdd(NAdd(NMul(v[1], c[0]), NMul(v[2], c[1])), NMul(v[3], c[2])),
         NMul(v[4], c[3]))

\* The row vector v times a, and a times the column vector v.
RowTimes(v, a) == [k \in 1..4 |-> Along(v, [i \in Idx |-> a[i][k - 1]])]
TimesColumn(a, v) == [k \in 1..4 |-> Along(v, a[k - 1])]

\* The entries of a and b that operator== and operator!= tell apart: a
\* difference that is NaN is not over epsilon.
Apart(a, b) ==
    \E i \in Idx, j \in Idx :
        /\ NSub(a[i][j], b[i][j]) # FNaN
        /\ ~FLeq(FAbs(NSub(a[i][j], b[i][j])), Epsilon)

\* The operations of matrix_t on a left operand a, a right operand b, a
\* scalar x and a vector v, by name.
MatrixOps == {"+", "+=", "-", "-=", "*", "*=", "==", "!=", "transpose",
              "inverse"}
ScalarOps == {"scalar*matrix", "matrix*scalar", "*=scalar"}
VectorOps == {"vector*matrix", "matrix*vector", "vector*=matrix",
              "matrix*=vector"}

Arith(op, a, b, x, v) ==
    CASE op = "+" ->
           IF HasNaNsF(b) THEN Thrown(a, v) ELSE ReturnMatrix(a, v, Sum(a, b))
      [] op = "+=" ->
           IF HasNaNsF(b) THEN Thrown(a, v)
           ELSE Res(Outcome(Sum(a, b), v, OutMatrix(Sum(a, b))), "none",
                    << >>)
      [] op = "-" ->
           IF HasNaNsF(b) THEN Thrown(a, v)
           ELSE ReturnMatrix(a, v, Difference(a, b))
      [] op = "-=" ->
           IF HasNaNsF(b) THEN Thrown(a, v)
           ELSE Res(Outcome(Difference(a, b), v,
                            OutMatrix(Difference(a, b))), "none", << >>)
      [] op = "*" ->
           IF HasNaNsF(b) THEN Thrown(a, v)
           ELSE ReturnMatrix(a, v, ProductN(a, b))
      [] op = "*=" ->
           IF HasNaNsF(b) THEN Thrown(a, v)
           ELSE Res(Outcome(ProductN(a, b), v, OutMatrix(ProductN(a, b))),
                    "none", << >>)
      [] op = "==" ->
           IF HasNaNsF(b) THEN Thrown(a, v)
           ELSE Res(Outcome(a, v, OutBool(~Apart(a, b))), "none", << >>)
      [] op = "!=" ->
           IF HasNaNsF(b) THEN Thrown(a, v)
           ELSE Res(Outcome(a, v, OutBool(Apart(a, b))), "none", << >>)
      [] op = "transpose" -> ReturnMatrix(a, v, Transposed(a))
      [] op = "inverse" ->
           IF HasNaNsF(a) THEN Thrown(a, v)
           ELSE LET r == Inverse(a)
                IN  Res(Outcome(a, v, IF r.err = "none" THEN OutMatrix(r.obj)
                                      ELSE NoOut), r.err, << >>)
      [] op \in {"scalar*matrix", "matrix*scalar"} ->
           IF x = FNaN \/ HasNaNsF(a) THEN Thrown(a, v)
           ELSE ReturnMatrix(a, v, Times(a, x))
      [] op = "*=scalar" ->
           IF x = FNaN THEN Thrown(a, v)
           ELSE Res(Outcome(Times(a, x), v, OutMatrix(Times(a, x))), "none",
                    << >>)
      [] op = "vector*matrix" ->
           IF VecHasNaNs(v) \/ HasNaNsF(a) THEN Thrown(a, v)
           ELSE Res(Outcome(a, v, OutVector(RowTimes(v, a))), "none", << >>)
      [] op = "matrix*vector" ->
           IF HasNaNsF(a) \/ VecHasNaNs(v) THEN Thrown(a, v)
           ELSE Res(Outcome(a, v, OutVector(TimesColumn(a, v))), "none",
                    << >>)
      [] op = "vector*=matrix" ->
           IF VecHasNaNs(v) \/ HasNaNsF(a) THEN Thrown(a, v)
           ELSE Res(Outcome(a, RowTimes(v, a), OutVector(RowTimes(v, a))),
                    "none", << >>)
      [] op = "matrix*=vector" ->
           IF VecHasNaNs(v) THEN Thrown(a, v)
           ELSE Res(Outcome(a, TimesColumn(a, v),
                            OutVector(TimesColumn(a, v))), "none", << >>)

\* The operands of the arithmetic.
Unit4 == << FInt(1), FInt(2), FInt(3), FInt(1) >>
VecWithNaN == << FNaN, FZero, FZero, FInt(1) >>
Vectors == {Unit4, VecWithNaN}
Scalars == {FInt(2), FNaN}

\* ---------------------------------------- default_shader_t, shading
\* The integer a float of integer value holds.
IntOf(f) == f.sign * f.m * 2 ^ f.e

\* vector4_t::operator- and operator^ on x, y and z, w apart.
VecMinus(a, b) == << NSub(a[1], b[1]), NSub(a[2], b[2]), NSub(a[3], b[3]) >>

Cross(a, b) ==
    << NSub(NMul(a[2], b[3]), NMul(a[3], b[2])),
       NSub(NMul(a[3], b[1]), NMul(a[1], b[3])),
       NSub(NMul(a[1], b[2]), NMul(a[2], b[1])) >>

\* vector4_t::normalize of a vector of integer components.
NormalizeVec(v) == Normalize(IntOf(v[1]), IntOf(v[2]), IntOf(v[3]))

\* (v2v0 ^ v1v0).normalize() of the positions c0, c1 and c2.
FaceNormal(c0, c1, c2) ==
    NormalizeVec(Cross(VecMinus(c2, c0), VecMinus(c1, c0)))

\* The copy of a face with the positions c0, c1, c2 and the normal n.
FaceWith(face, c0, c1, c2, n) ==
    [v0 |-> [face.v0 EXCEPT !.coord = c0],
     v1 |-> [face.v1 EXCEPT !.coord = c1],
     v2 |-> [face.v2 EXCEPT !.coord = c2],
     normal |-> n,
     material |-> face.material]

\* What vertex() leaves of its argument and what it returns.
Shaded(face, out) == [face |-> face, out |-> out]

\* vertex() that returns the copy with the normal it came with.
TransformKeepNormal(face, mvp) ==
    Res(Shaded(face, FaceWith(face, TimesColumn(mvp, face.v0.coord),
                              TimesColumn(mvp, face.v1.coord),
                              TimesColumn(mvp, face.v2.coord),
                              face.normal)), "none", << >>)

\* The body of vertex() once mvp is computed.
Transform(face, mvp) ==
    Res(Shaded(face, FaceWith(face, TimesColumn(mvp, face.v0.coord),
                              TimesColumn(mvp, face.v1.coord),
                              TimesColumn(mvp, face.v2.coord),
                              FaceNormal(TimesColumn(mvp, face.v0.coord),
                                         TimesColumn(mvp, face.v1.coord),
                                         TimesColumn(mvp, face.v2.coord)))),
        "none", << >>)

\* project_matrix * view_matrix * model_matrix; an operand holding a NaN
\* makes operator* throw.
Mvp(sd) ==
    IF MatMul(sd.project, sd.view).err # "none"
    THEN MatMul(sd.project, sd.view)
    ELSE MatMul(MatMul(sd.project, sd.view).obj, sd.model)

\* default_shader_t::vertex
ShaderVertex(sd, face) ==
    IF Mvp(sd).err # "none" THEN Res(Shaded(face, face), Mvp(sd).err, << >>)
    ELSE Transform(face, Mvp(sd).obj)

\* framebuffer_t::ARGB(a, r, g, b)
ARGB(a, r, g, b) == [a |-> a, r |-> r, g |-> g, b |-> b]

\* std::numeric_limits<uint8_t>::max()
Uint8Max == 255

\* auto intensity = 0
Intensity == 0

\* static_cast<uint8_t>(f) of a float in [0, 256): the fraction is dropped.
CastUint8(f) ==
    IF f.m = 0 \/ -f.e > Mantissa THEN 0
    ELSE IF f.e >= 0 THEN f.m * 2 ^ f.e
    ELSE f.m \div 2 ^ (-f.e)

\* One component of color_v: c0 * w.x + c1 * w.y + c2 * w.z.
Blend(c0, c1, c2, w) ==
    FAddF(FAddF(FMulF(c0, w[1]), FMulF(c1, w[2])), FMulF(c2, w[3]))

\* 255 * v * intensity as a uint8_t.
Lit(v, intensity) ==
    CastUint8(FMulF(FMulF(FInt(Uint8Max), v), FInt(intensity)))

\* interpolate_color with the light at intensity 1.
InterpolateColorLit(c0, c1, c2, w, normal) ==
    ARGB(Uint8Max, Lit(Blend(c0[1], c1[1], c2[1], w), 1),
         Lit(Blend(c0[2], c1[2], c2[2], w), 1),
         Lit(Blend(c0[3], c1[3], c2[3], w), 1))

\* default_shader_t::interpolate_color
InterpolateColor(c0, c1, c2, w, normal) ==
    ARGB(Uint8Max, Lit(Blend(c0[1], c1[1], c2[1], w), Intensity),
         Lit(Blend(c0[2], c1[2], c2[2], w), Intensity),
         Lit(Blend(c0[3], c1[3], c2[3], w), Intensity))

\* The faces shaded: one whose normal is (3, 4, 0) / 5 and one facing -z,
\* with colors, normals, texture coordinates and materials that differ.
Vec(x, y, z, w) == << FInt(x), FInt(y), FInt(z), FInt(w) >>
Half == [sign |-> 1, m |-> 1, e |-> -1]
Quarter == [sign |-> 1, m |-> 1, e |-> -2]

VertexOf(coord, s, color) ==
    [coord |-> coord, normal |-> Vec(s, 0, 1, 0), texcoord |-> << s, s + 1 >>,
     color |-> color]

Slanted ==
    [v0 |-> VertexOf(Vec(0, 0, 0, 1), 1, << FOne, FZero, FZero, FZero >>),
     v1 |-> VertexOf(Vec(4, -3, 0, 1), 2, << FZero, FOne, FZero, FZero >>),
     v2 |-> VertexOf(Vec(0, 0, 1, 1), 3, << Half, Half, FOne, FZero >>),
     normal |-> << FZero, FZero, FOne >>,
     material |-> SampleMaterial(1)]

Flat ==
    [v0 |-> VertexOf(Vec(1, 1, 1, 1), 4, << FOne, FOne, FOne, FZero >>),
     v1 |-> VertexOf(Vec(4, 1, 1, 1), 5, << FOne, FOne, FOne, FZero >>),
     v2 |-> VertexOf(Vec(1, 3, 1, 1), 6, << FOne, FOne, FOne, FZero >>),
     normal |-> << FZero, FOne, FZero >>,
     material |-> SampleMaterial(2)]

Faces == {Slanted, Flat}

\* The matrices of the shader: similarities of integer entries, and one
\* holding a NaN.
QuarterTurn ==
    FromRows(<< << 0, -1, 0, 0 >>, << 1, 0, 0, 0 >>,
                << 0, 0, 1, 0 >>, << 0, 0, 0, 1 >> >>)

ShaderMatrices ==
    {Identity4f, ScaleOf(FInt(2), FInt(2), FInt(2)),
     TranslationOf(FInt(1), FInt(2), FInt(3)), QuarterTurn,
     [Identity4f EXCEPT ![0][0] = FNaN]}

\* Barycentric weights of points of a triangle.
WeightSets ==
    {<< FOne, FZero, FZero >>, << Half, Quarter, Quarter >>,
     << FZero, Half, Half >>}

\* ------------------------------------------------- model_t, loading
\* a <= b for floats of either sign.
SLeq(a, b) ==
    IF a.m # 0 /\ a.sign = -1
    THEN (IF b.m # 0 /\ b.sign = -1 THEN FLeq(FAbs(b), FAbs(a)) ELSE TRUE)
    ELSE IF b.m # 0 /\ b.sign = -1 THEN FALSE
    ELSE FLeq(a, b)

\* std::numeric_limits<float>::max() and min(): the largest float and the
\* smallest positive normal one.
FloatMax == [sign |-> 1, m |-> 2 ^ Mantissa - 1, e |-> 104]
FloatMin == [sign |-> 1, m |-> 1, e |-> -126]

\* Whether vector4_t::length() of a normal is 0.
ZeroLength(n) == n[1] = FZero /\ n[2] = FZero /\ n[3] = FZero

VecPlus(a, b) == << NAdd(a[1], b[1]), NAdd(a[2], b[2]), NAdd(a[3], b[3]) >>

\* face_t(v0, v1, v2, material): the normal is the normalized sum of the
\* vertices' normals when each has a length, and that of the edges' cross
\* product otherwise.
FaceCtor(v0, v1, v2, material) ==
    [v0 |-> v0, v1 |-> v1, v2 |-> v2,
     normal |-> IF ~ZeroLength(v0.normal) /\ ~ZeroLength(v1.normal)
                   /\ ~ZeroLength(v2.normal)
                THEN NormalizeVec(VecPlus(VecPlus(v0.normal, v1.normal),
                                          v2.normal))
                ELSE FaceNormal(v0.coord, v1.coord, v2.coord),
     material |-> material]

\* The vertex the loader builds of an index of a face: its position with
\* w = 1, its normal or (0, 0, 0), no texture coordinate, the color white.
LoadedVertex(v) ==
    [coord |-> Vec(v.pos[1], v.pos[2], v.pos[3], 1),
     normal |-> << FInt(v.n[1]), FInt(v.n[2]), FInt(v.n[3]) >>,
     texcoord |-> << FZero, FZero >>,
     color |-> << FOne, FOne, FOne >>]

\* material_t(): nothing set from the file.
MaterialCtor ==
    [shininess |-> FZero, ambient |-> Vec(0, 0, 0, 0),
     diffuse |-> Vec(0, 0, 0, 0), specular |-> Vec(0, 0, 0, 0)]

LoadedFace(f) ==
    FaceCtor(LoadedVertex(f.v[1]), LoadedVertex(f.v[2]), LoadedVertex(f.v[3]),
             MaterialCtor)

\* The box of the loader: min and max as they are declared, never compared
\* with a vertex.
LoaderBox ==
    [min |-> << FloatMax, FloatMax, FloatMax >>,
     max |-> << FloatMin, FloatMin, FloatMin >>]

\* model_t(obj_path, mtl_path): the file does not parse, or holds a face
\* that is no triangle, or gives the faces in order.
Load(file) ==
    IF ~file.parsed THEN Res(<< >>, "runtime_error", << >>)
    ELSE IF \E k \in 1..Len(file.faces) : file.faces[k].fv # 3
    THEN Res(<< >>, "runtime_error", << >>)
    ELSE Res([face |-> [k \in 1..Len(file.faces) |->
                           LoadedFace(file.faces[k])],
              box |-> LoaderBox],
             "none", << >>)

\* The obj files read: up to MaxFaces triangles with a right angle at a
\* corner, with the normal (0, 0, 1) at every vertex or with none.
MaxFaces == 2
Corners == {<< 0, 0, 0 >>, << -1, 2, 1 >>}
Legs == {1, 2}
ObjNormals == {<< 0, 0, 0 >>, << 0, 0, 1 >>}

ObjFace(c, p, q, n) ==
    [fv |-> 3,
     v |-> << [pos |-> c, n |-> n],
              [pos |-> << c[1] + p, c[2], c[3] >>, n |-> n],
              [pos |-> << c[1], c[2] + q, c[3] >>, n |-> n] >>]

ObjFaces ==
    {ObjFace(c, p, q, n) : c \in Corners, p \in Legs, q \in Legs,
                           n \in ObjNormals}

ObjFiles ==
    {[parsed |-> FALSE, faces |-> << >>]}
        \cup {[parsed |-> TRUE, faces |-> fs] :
                fs \in UNION {[1..n -> ObjFaces] : n \in 0..MaxFaces}}

\* ------------------------------------------------------------ display_t
\* color_t::color_idx_t
COLOR_IDX_R == 0
COLOR_IDX_G == 1
COLOR_IDX_B == 2
COLOR_IDX_A == 3

\* The channels r, g, b, a of the colors.
Channels(color) ==
    IF color = "BLACK" THEN << 0, 0, 0, 255 >> ELSE << 255, 255, 255, 255 >>

\* color_t::operator[]
Channel(color, idx) == Channels(color)[idx + 1]

\* A call of SDL on the window surface.
SurfaceEv(call, x, y, rgba) == [call |-> call, x |-> x, y |-> y, rgba |-> rgba]
Lock(x, y, ok) ==
    SurfaceEv(IF ok THEN "SDL_LockSurface" ELSE "SDL_LockSurface failed",
              x, y, << >>)
Unlock(x, y) == SurfaceEv("SDL_UnlockSurface", x, y, << >>)

\* *(uint32_t*)p = SDL_MapRGBA(format, r, g, b, a) at (x, y)
MapRGBA(x, y, r, g, b, a) == SurfaceEv("SDL_MapRGBA", x, y, << r, g, b, a >>)

\* The only color depth pixel() writes: 4 bytes per pixel.
SupportedBpp == 4

\* display_t::pixel(surface, x, y, a, r, g, b): the calls it makes on the
\* surface.  A lock that fails is logged and the call returns.
DisplayPixel(bpp, locked, x, y, a, r, g, b) ==
    IF ~locked THEN Res(<< Lock(x, y, FALSE) >>, "none", << >>)
    ELSE IF bpp # SupportedBpp
    THEN Res(<< Lock(x, y, TRUE) >>, "runtime_error", << >>)
    ELSE Res(<< Lock(x, y, TRUE), MapRGBA(x, y, r, g, b, a), Unlock(x, y) >>,
             "none", << >>)

\* What the body of fill()'s loops does at (i, j).
FillPixel(f, surface, i, j) ==
    DisplayPixel(surface.bpp, surface.locks[j * f.width + i], i, j,
                 Channel(ColorAt(f.color_buffer, i, j), 0),
                 Channel(ColorAt(f.color_buffer, i, j), 1),
                 Channel(ColorAt(f.color_buffer, i, j), 2),
                 Channel(ColorAt(f.color_buffer, i, j), 3))

\* for i < width, for j < height: the k-th pass is at (k / height,
\* k % height); a pixel() that throws ends the loops.
RECURSIVE FillLoop(_, _, _, _)
FillLoop(f, surface, k, evs) ==
    IF k >= f.width * f.height THEN Res(evs, "none", << >>)
    ELSE IF FillPixel(f, surface, k \div f.height, k % f.height).err # "none"
    THEN Res(evs \o FillPixel(f, surface, k \div f.height,
                              k % f.height).obj,
             "runtime_error", << >>)
    ELSE FillLoop(f, surface, k + 1,
                  evs \o FillPixel(f, surface, k \div f.height,
                                   k % f.height).obj)

\* display_t::fill: nothing is done without a window surface.
Fill(f, surface) ==
    IF surface.null THEN Res(<< >>, "none", << >>)
    ELSE FillLoop(f, surface, 0, << >>)

\* The events of SDL and what input_handler calls for each.
KeyDown(sym) == [type |-> "SDL_KEYDOWN", sym |-> sym]
Other(type) == [type |-> type, sym |-> "none"]

Bound ==
    {"SDLK_a", "SDLK_d", "SDLK_SPACE", "SDLK_z", "SDLK_LCTRL", "SDLK_w",
     "SDLK_s", "SDLK_LSHIFT"}

KeyCallback(sym) ==
    CASE sym = "SDLK_a" -> "key_a"
      [] sym = "SDLK_d" -> "key_d"
      [] sym = "SDLK_SPACE" -> "key_space"
      [] sym = "SDLK_z" -> "key_z"
      [] sym = "SDLK_LCTRL" -> "key_left_ctrl"
      [] sym = "SDLK_w" -> "key_w"
      [] sym = "SDLK_s" -> "key_s"
      [] sym = "SDLK_LSHIFT" -> "key_left_shift"

\* The callbacks one event makes input_handler call.
Dispatch(e) ==
    IF e.type = "SDL_KEYDOWN"
    THEN (IF e.sym \in Bound THEN << KeyCallback(e.sym) >> ELSE << >>)
    ELSE IF e.type = "SDL_MOUSEMOTION" THEN << "key_mouse_motion" >>
    ELSE << >>

\* Whether an event sets is_should_quit.
Quits(e) ==
    \/ e.type = "SDL_KEYDOWN" /\ e.sym = "SDLK_ESCAPE"
    \/ e.type = "SDL_QUIT"

\* input_handler() whose flag is whether the last event asks to quit.
InputHandlerLastEvent(flag, queue) ==
    [is_should_quit |-> IF queue = << >> THEN flag
                        ELSE Quits(queue[Len(queue)]),
     calls |-> [k \in 1..Len(queue) |-> Dispatch(queue[k])]]

\* display_t::input_handler on the events queued: the flag after it and
\* the callbacks called, event by event.
InputHandler(flag, queue) ==
    [is_should_quit |-> flag \/ \E k \in 1..Len(queue) : Quits(queue[k]),
     calls |-> [k \in 1..Len(queue) |-> Dispatch(queue[k])]]

\* A call of SDL or SDL_ttf that acquires or releases, and whether it
\* succeeded.
Sdl(call, ok) == [call |-> call, ok |-> ok]

\* display_t::display_t: the calls made up to the one that fails, and those
\* of the failure path.  The exception is caught in the constructor.
DisplayCtor(fails) ==
    CASE fails = "SDL_Init" ->
           [calls |-> << Sdl("SDL_Init", FALSE) >>,
            sdl_window |-> "uninit", font |-> "uninit"]
      [] fails = "SDL_CreateWindow" ->
           [calls |-> << Sdl("SDL_Init", TRUE),
                         Sdl("SDL_CreateWindow", FALSE),
                         Sdl("SDL_Quit", TRUE) >>,
            sdl_window |-> "null", font |-> "uninit"]
      [] fails = "TTF_Init" ->
           [calls |-> << Sdl("SDL_Init", TRUE),
                         Sdl("SDL_CreateWindow", TRUE),
                         Sdl("TTF_Init", FALSE),
                         Sdl("SDL_DestroyWindow", TRUE),
                         Sdl("SDL_Quit", TRUE) >>,
            sdl_window |-> "destroyed", font |-> "uninit"]
      [] fails = "TTF_OpenFont" ->
           [calls |-> << Sdl("SDL_Init", TRUE),
                         Sdl("SDL_CreateWindow", TRUE),
                         Sdl("TTF_Init", TRUE),
                         Sdl("TTF_OpenFont", FALSE),
                         Sdl("TTF_Quit", TRUE),
                         Sdl("SDL_DestroyWindow", TRUE),
                         Sdl("SDL_Quit", TRUE) >>,
            sdl_window |-> "destroyed", font |-> "null"]
      [] fails = "none" ->
           [calls |-> << Sdl("SDL_Init", TRUE),
                         Sdl("SDL_CreateWindow", TRUE),
                         Sdl("TTF_Init", TRUE),
                         Sdl("TTF_OpenFont", TRUE) >>,
            sdl_window |-> "valid", font |-> "valid"]

CtorFailures ==
    {"none", "SDL_Init", "SDL_CreateWindow", "TTF_Init", "TTF_OpenFont"}

\* display_t::~display_t
DisplayDtor ==
    << Sdl("TTF_CloseFont", TRUE), Sdl("TTF_Quit", TRUE),
       Sdl("SDL_DestroyWindow", TRUE), Sdl("SDL_Quit", TRUE) >>

\* The steps of one iteration of loop(), in the order of the code.
LoopSteps == << "input_handler", "clear", "fill", "show_fps", "present" >>

\* The queues of events input_handler finds, and the window surfaces.
MaxEvents == 2
MaxIters == 2

Events ==
    {KeyDown("SDLK_ESCAPE"), KeyDown("SDLK_a"), KeyDown("SDLK_LSHIFT"),
     KeyDown("SDLK_F1"), Other("SDL_MOUSEMOTION"),
     Other("SDL_MOUSEBUTTONDOWN"), Other("SDL_QUIT")}

Queues == UNION {[1..n -> Events] : n \in 0..MaxEvents}

\* A window surface: whether there is one, its bytes per pixel, and which
\* of the locks of a fill succeed, by pixel.
Surfaces ==
    {[null |-> n, bpp |-> b, locks |-> l] :
        n \in BOOLEAN, b \in {SupportedBpp, 2},
        l \in {[k \in 0..(MaxDim * MaxDim - 1) |-> k # x] :
                 x \in {-1, 0, MaxDim * MaxDim - 1}}}

\* The matrices inverted: a family around one of determinant 5, and
\* one of determinant 11, two singular ones, one of determinant 2^-24 and
\* one holding a NaN.
Entries == {-1, 0, 1}

Family(a, b, c, d) ==
    FromRows(<< << 1, a, 1, -1 >>, << 0, 0, 1, b >>,
                << 1, 1, c, 1 >>, << 0, 1, 0, d >> >>)

Det11 ==
    FromRows(<< << 0, 2, 2, -1 >>, << -2, 1, -1, 0 >>,
                << -2, 1, -2, -1 >>, << -1, -1, -2, -2 >> >>)

SingularSmall ==
    FromRows(<< << 1, 2, 3, 4 >>, << 2, 4, 6, 8 >>,
                << 0, 1, 0, 1 >>, << 1, 0, 0, 1 >> >>)

\* Singular: the last row is the first one negated.
SingularLarge ==
    FromRows(<< << -79, -99, -77, 9 >>, << 68, -6, 26, -69 >>,
                << 60, -95, 97, 95 >>, << 79, 99, 77, -9 >> >>)

Tiny == [sign |-> 1, m |-> 1, e |-> -8]
NearSingular == ScaleOf(Tiny, Tiny, Tiny)

WithNaN == [Identity4f EXCEPT ![0][0] = FNaN]

InvInputs ==
    {Family(a, b, c, d) : a \in Entries, b \in Entries, c \in Entries,
                          d \in Entries}
        \cup {Identity4f, Det11, SingularSmall, SingularLarge, NearSingular,
              WithNaN}

\* The matrices transformed, and the arguments of the transforms.
Affine ==
    FromRows(<< << 1, 2, 0, 1 >>, << 0, 1, 1, 2 >>,
                << 1, 0, 1, 0 >>, << 0, 1, 0, 1 >> >>)

NoBottomRow ==
    FromRows(<< << 1, 0, 2, 1 >>, << 0, 1, 0, 0 >>,
                << 0, 0, 1, 3 >>, << 0, 0, 0, 0 >> >>)

XfInputs == {Affine, NoBottomRow, WithNaN}

\* The matrix operands of the arithmetic.
ArithInputs == {Identity4f, Affine, WithNaN}

Offsets == {<< FInt(1), FInt(2), FInt(3) >>, << FNaN, FZero, FZero >>}
Factors == {FInt(2), [sign |-> 1, m |-> 1, e |-> -1]}
Factors3 == {<< FInt(2), FInt(3), FInt(4) >>}
Turns == {<< 2, 0, 0, HalfPi >>, << 0, 1, 0, Pi >>}

\* A call is made on m or on the matrix the call before returned.
Receivers == {"m", "ret"}

\* ---------------------------------------------------------------- state
VARIABLES
    fbs,    \* the framebuffers, by object
    cbuf,   \* a color_buffer_t held by itself
    dbuf,   \* a depth_buffer_t held by itself
    oom,    \* whether operator new may throw std::bad_alloc in this run
    objs,   \* the matrices and the model types' objects, by type and object
    tri,    \* the arguments of get_barycentric_coord: p0, p1, p2 and p
    bary,   \* what get_barycentric_coord returned
    scene,  \* per framebuffer: the color it was cleared to and the triangles
            \* and lines drawn into it since, in order
    mats,   \* a matrix4f_t m and the matrix the last call on it returned
    shader, \* a default_shader_t: its matrices, the face given to vertex()
            \* and what the last call on it returned
    model,  \* the obj file read and the model_t constructed from it
    disp,   \* a display_t and the SDL state behind it
    last,   \* the last call: its name, arguments, error and array accesses
    steps   \* the number of calls made

vars == << fbs, cbuf, dbuf, oom, objs, tri, bary, scene, mats, shader, model,
           disp, last, steps >>

\* The parts of the state a run does not use.
NoShader == [called |-> FALSE]
NoModel == [loaded |-> FALSE, file |-> [parsed |-> FALSE, faces |-> << >>],
            m |-> << >>]
NoDisplay == [pc |-> "none"]

Mats(m, ret) == [m |-> m, ret |-> ret, v |-> Unit4]
NoMats == Mats(Identity4f, Identity4f)

Call(op, i, j, x, y, c, d, err, evs) ==
    [op |-> op, i |-> i, j |-> j, x |-> x, y |-> y, c |-> c, d |-> d,
     err |-> err, evs |-> evs]

NoCall == Call("none", 0, 0, 0, 0, DefaultColor, DefaultDepth, "none", << >>)

\* The outcomes of an allocation: `new` succeeds, or throws when memory is
\* exhausted.
AllocOutcomes == IF oom THEN BOOLEAN ELSE {TRUE}

\* Two framebuffers of the largest size, as constructed.
InitObjects ==
    /\ fbs = [s \in Slots |-> FramebufferCtor(MaxDim, MaxDim, TRUE, TRUE).obj]
    /\ cbuf = ColorBufferCtor(1, 1, DefaultColor, TRUE).obj
    /\ dbuf = DepthBufferCtor(1, 1, DefaultDepth, TRUE).obj
    /\ objs = InitObjs
    /\ tri = NoTriangle
    /\ bary = NoResult
    /\ scene = NoScene
    /\ mats = NoMats
    /\ last = NoCall
    /\ shader = NoShader
    /\ model = NoModel
    /\ disp = NoDisplay
    /\ steps = 0

Init == InitObjects /\ oom = FALSE

InitOOM == InitObjects /\ oom = TRUE

\* The objects above, and a triangle and a point for the barycentric test.
InitAssign == InitObjects /\ oom = FALSE

InitBary ==
    /\ fbs = [s \in Slots |-> FramebufferCtor(MaxDim, MaxDim, TRUE, TRUE).obj]
    /\ cbuf = ColorBufferCtor(1, 1, DefaultColor, TRUE).obj
    /\ dbuf = DepthBufferCtor(1, 1, DefaultDepth, TRUE).obj
    /\ oom = FALSE
    /\ objs = InitObjs
    /\ tri \in BaryInputs
    /\ bary = NoResult
    /\ scene = NoScene
    /\ mats = NoMats
    /\ last = NoCall
    /\ shader = NoShader
    /\ model = NoModel
    /\ disp = NoDisplay
    /\ steps = 0

\* A 4x4 framebuffer cleared to a color and the farthest depth.
Cleared(color) ==
    FramebufferClear(FramebufferCtor(DrawDim, DrawDim, TRUE, TRUE).obj,
                     color, FarDepth).obj

InitDraw ==
    \E c \in Colors :
        /\ fbs = [s \in Slots |-> Cleared(c)]
        /\ scene = [s \in Slots |-> SceneOf(c, << >>)]
        /\ mats = NoMats
        /\ cbuf = ColorBufferCtor(1, 1, DefaultColor, TRUE).obj
        /\ dbuf = DepthBufferCtor(1, 1, DefaultDepth, TRUE).obj
        /\ oom = FALSE
        /\ objs = InitObjs
        /\ tri = NoTriangle
        /\ bary = NoResult
        /\ last = NoCall
        /\ shader = NoShader
        /\ model = NoModel
        /\ disp = NoDisplay
        /\ steps = 0

\* A matrix to invert or to transform, and nothing returned yet.
InitMats(inputs) ==
    /\ fbs = [s \in Slots |-> FramebufferCtor(MaxDim, MaxDim, TRUE, TRUE).obj]
    /\ cbuf = ColorBufferCtor(1, 1, DefaultColor, TRUE).obj
    /\ dbuf = DepthBufferCtor(1, 1, DefaultDepth, TRUE).obj
    /\ oom = FALSE
    /\ objs = InitObjs
    /\ tri = NoTriangle
    /\ bary = NoResult
    /\ scene = NoScene
    /\ \E m \in inputs : mats = Mats(m, Identity4f)
    /\ last = NoCall
    /\ shader = NoShader
    /\ model = NoModel
    /\ disp = NoDisplay
    /\ steps = 0

\* A left operand and a vector for the arithmetic.
InitArith ==
    /\ fbs = [s \in Slots |-> FramebufferCtor(MaxDim, MaxDim, TRUE, TRUE).obj]
    /\ cbuf = ColorBufferCtor(1, 1, DefaultColor, TRUE).obj
    /\ dbuf = DepthBufferCtor(1, 1, DefaultDepth, TRUE).obj
    /\ oom = FALSE
    /\ objs = InitObjs
    /\ tri = NoTriangle
    /\ bary = NoResult
    /\ scene = NoScene
    /\ \E m \in ArithInputs, v \in Vectors :
          mats = [Mats(m, Identity4f) EXCEPT !.v = v]
    /\ last = [NoCall EXCEPT !.x = [b |-> Identity4f, x |-> FZero,
                                    out |-> NoOut]]
    /\ shader = NoShader
    /\ model = NoModel
    /\ disp = NoDisplay
    /\ steps = 0

\* A shader with its three matrices set and a face to shade; nothing
\* returned yet.
InitShader ==
    /\ fbs = [s \in Slots |-> FramebufferCtor(MaxDim, MaxDim, TRUE, TRUE).obj]
    /\ cbuf = ColorBufferCtor(1, 1, DefaultColor, TRUE).obj
    /\ dbuf = DepthBufferCtor(1, 1, DefaultDepth, TRUE).obj
    /\ oom = FALSE
    /\ objs = InitObjs
    /\ tri = NoTriangle
    /\ bary = NoResult
    /\ scene = NoScene
    /\ mats = NoMats
    /\ \E p \in ShaderMatrices, v \in ShaderMatrices, m \in ShaderMatrices,
          f \in Faces :
          shader = [project |-> p, view |-> v, model |-> m, face |-> f,
                    out |-> f, w |-> << FZero, FZero, FZero >>,
                    color |-> ARGB(0, 0, 0, 0)]
    /\ model = NoModel
    /\ disp = NoDisplay
    /\ last = NoCall
    /\ steps = 0

\* An obj file to load, and no model yet.
InitLoader ==
    /\ fbs = [s \in Slots |-> FramebufferCtor(MaxDim, MaxDim, TRUE, TRUE).obj]
    /\ cbuf = ColorBufferCtor(1, 1, DefaultColor, TRUE).obj
    /\ dbuf = DepthBufferCtor(1, 1, DefaultDepth, TRUE).obj
    /\ oom = FALSE
    /\ objs = InitObjs
    /\ tri = NoTriangle
    /\ bary = NoResult
    /\ scene = NoScene
    /\ mats = NoMats
    /\ shader = NoShader
    /\ \E f \in ObjFiles : model = [NoModel EXCEPT !.file = f]
    /\ disp = NoDisplay
    /\ last = NoCall
    /\ steps = 0

\* A framebuffer that holds a drawn frame, and no display_t yet.
Frame(colors) ==
    [FramebufferCtor(MaxDim, MaxDim, TRUE, TRUE).obj
       EXCEPT !.color_buffer.arr = colors]

Frames ==
    {Frame([k \in 0..(MaxDim * MaxDim - 1) |->
              IF k \in white THEN "WHITE" ELSE "BLACK"]) :
        white \in {{}, {1}}}

Display(pc, calls, sdl_window, font) ==
    [pc |-> pc, calls |-> calls, sdl_window |-> sdl_window, font |-> font,
     is_should_quit |-> FALSE, iter |-> 0, trace |-> << >>,
     queue |-> << >>, handled |-> << >>, evs |-> << >>]

InitDisplay ==
    /\ \E f \in Frames : fbs = [s \in Slots |-> f]
    /\ cbuf = ColorBufferCtor(1, 1, DefaultColor, TRUE).obj
    /\ dbuf = DepthBufferCtor(1, 1, DefaultDepth, TRUE).obj
    /\ oom = FALSE
    /\ objs = InitObjs
    /\ tri = NoTriangle
    /\ bary = NoResult
    /\ scene = NoScene
    /\ mats = NoMats
    /\ shader = NoShader
    /\ model = NoModel
    /\ disp = Display("none", << >>, "uninit", "uninit")
    /\ last = NoCall
    /\ steps = 0

InitInverse == InitMats(InvInputs)

InitTransform == InitMats(XfInputs)

Step == steps < MaxSteps /\ steps' = steps + 1

\* ---------------------------------------------- framebuffer operations
Construct ==
    \E i \in Slots, w \in Dims, h \in Dims, okc \in AllocOutcomes,
       okd \in AllocOutcomes :
       LET r == FramebufferCtor(w, h, okc, okd)
       IN /\ Step
          /\ fbs' = [fbs EXCEPT ![i] = r.obj]
          /\ last' = Call("ctor", i, 0, w, h, DefaultColor, DefaultDepth,
                          r.err, r.evs)
          /\ UNCHANGED << cbuf, dbuf, oom, objs, tri, bary, scene, mats, shader, model, disp >>

\* A framebuffer copy-constructed from fbs[j] takes the place of fbs[i]; a
\* constructor that throws leaves no new object.
CopyConstruct ==
    \E i \in Slots, j \in Slots, w0 \in Indeterminate, h0 \in Indeterminate,
       okc \in AllocOutcomes, okd \in AllocOutcomes :
       LET r == FramebufferCopyCtor(fbs[j], w0, h0, okc, okd)
       IN /\ Step
          /\ i # j
          /\ fbs' = IF r.err = "none" THEN [fbs EXCEPT ![i] = r.obj] ELSE fbs
          /\ last' = Call("copy_ctor", i, j, w0, h0, DefaultColor,
                          DefaultDepth, r.err, r.evs)
          /\ UNCHANGED << cbuf, dbuf, oom, objs, tri, bary, scene, mats, shader, model, disp >>

Assign ==
    \E i \in Slots, j \in Slots, okc \in AllocOutcomes,
       okd \in AllocOutcomes :
       LET r == FramebufferAssign(fbs[i], fbs[j], i = j, okc, okd)
       IN /\ Step
          /\ fbs' = [fbs EXCEPT ![i] = r.obj]
          /\ last' = Call("assign", i, j, 0, 0, DefaultColor, DefaultDepth,
                          r.err, r.evs)
          /\ UNCHANGED << cbuf, dbuf, oom, objs, tri, bary, scene, mats, shader, model, disp >>

Clear ==
    \E i \in Slots, c \in Colors, d \in Depths :
       LET r == FramebufferClear(fbs[i], c, d)
       IN /\ Step
          /\ fbs' = [fbs EXCEPT ![i] = r.obj]
          /\ last' = Call("clear", i, 0, 0, 0, c, d, r.err, r.evs)
          /\ UNCHANGED << cbuf, dbuf, oom, objs, tri, bary, scene, mats, shader, model, disp >>

Pixel ==
    \E i \in Targets, x \in Coords, y \in Coords, c \in Colors, d \in WriteDepths :
       LET r == FramebufferPixel(fbs[i], x, y, c, d)
       IN /\ Step
          /\ fbs' = [fbs EXCEPT ![i] = r.obj]
          /\ last' = Call("pixel", i, 0, x, y, c, d, r.err, r.evs)
          /\ UNCHANGED << cbuf, dbuf, oom, objs, tri, bary, scene, mats, shader, model, disp >>

DepthRefWrite ==
    \E i \in Targets, x \in Coords, y \in Coords, d \in WriteDepths :
       LET r == FramebufferDepthRefSet(fbs[i], x, y, d)
       IN /\ Step
          /\ fbs' = [fbs EXCEPT ![i] = r.obj]
          /\ last' = Call("depth_ref", i, 0, x, y, DefaultColor, d,
                          r.err, r.evs)
          /\ UNCHANGED << cbuf, dbuf, oom, objs, tri, bary, scene, mats, shader, model, disp >>

\* --------------------------------------------------- buffer operations
\* The buffers a buffer can be copied from: those of the framebuffers (read
\* through the const accessors) and, slot 0, the buffer itself.
ColorSource(j) == IF j = 0 THEN cbuf ELSE fbs[j].color_buffer
DepthSource(j) == IF j = 0 THEN dbuf ELSE fbs[j].depth_buffer

ColorConstruct ==
    \E w \in Dims, h \in Dims, c \in Colors, ok \in AllocOutcomes :
       LET r == ColorBufferCtor(w, h, c, ok)
       IN /\ Step
          /\ cbuf' = r.obj
          /\ last' = Call("color_ctor", 0, 0, w, h, c, DefaultDepth,
                          r.err, r.evs)
          /\ UNCHANGED << fbs, dbuf, oom, objs, tri, bary, scene, mats, shader, model, disp >>

ColorCopyConstruct ==
    \E j \in Slots, ok \in AllocOutcomes :
       LET r == ColorBufferCopyCtor(ColorSource(j), ok)
       IN /\ Step
          /\ cbuf' = r.obj
          /\ last' = Call("color_copy_ctor", 0, j, 0, 0, DefaultColor,
                          DefaultDepth, r.err, r.evs)
          /\ UNCHANGED << fbs, dbuf, oom, objs, tri, bary, scene, mats, shader, model, disp >>

\* cbuf = source; source slot 0 is cbuf = cbuf.
ColorAssign ==
    \E j \in Slots \cup {0}, ok \in AllocOutcomes :
       LET r == ColorBufferAssign(cbuf, ColorSource(j), ok)
       IN /\ Step
          /\ cbuf' = r.obj
          /\ last' = Call("color_assign", 0, j, 0, 0, DefaultColor,
                          DefaultDepth, r.err, r.evs)
          /\ UNCHANGED << fbs, dbuf, oom, objs, tri, bary, scene, mats, shader, model, disp >>

DepthConstruct ==
    \E w \in Dims, h \in Dims, d \in Depths, ok \in AllocOutcomes :
       LET r == DepthBufferCtor(w, h, d, ok)
       IN /\ Step
          /\ dbuf' = r.obj
          /\ last' = Call("depth_ctor", 0, 0, w, h, DefaultColor, d,
                          r.err, r.evs)
          /\ UNCHANGED << fbs, cbuf, oom, objs, tri, bary, scene, mats, shader, model, disp >>

DepthCopyConstruct ==
    \E j \in Slots, ok \in AllocOutcomes :
       LET r == DepthBufferCopyCtor(DepthSource(j), ok)
       IN /\ Step
          /\ dbuf' = r.obj
          /\ last' = Call("depth_copy_ctor", 0, j, 0, 0, DefaultColor,
                          DefaultDepth, r.err, r.evs)
          /\ UNCHANGED << fbs, cbuf, oom, objs, tri, bary, scene, mats, shader, model, disp >>

DepthAssign ==
    \E j \in Slots \cup {0}, ok \in AllocOutcomes :
       LET r == DepthBufferAssign(dbuf, DepthSource(j), ok)
       IN /\ Step
          /\ dbuf' = r.obj
          /\ last' = Call("depth_assign", 0, j, 0, 0, DefaultColor,
                          DefaultDepth, r.err, r.evs)
          /\ UNCHANGED << fbs, cbuf, oom, objs, tri, bary, scene, mats, shader, model, disp >>

\* ----------------------------------------------- assignment operations
\* a = b for two objects of one type; i = j is a = a.
ObjAssign ==
    \E t \in Types, i \in Slots, j \in Slots :
        LET r == AssignOf(t, objs[t][i], objs[t][j], i = j)
        IN  /\ Step
            /\ objs' = [objs EXCEPT ![t][i] = r.obj]
            /\ last' = Call(t, i, j, 0, 0, DefaultColor, 0, r.err, r.evs)
            /\ UNCHANGED << fbs, cbuf, dbuf, oom, tri, bary, scene, mats, shader, model, disp >>

\* m[r][c] = v on a matrix.
MatrixWrite ==
    \E i \in Slots, r \in {0, ORDER - 1}, c \in {0, ORDER - 1},
       v \in {NaN, 2} :
        LET res == MatrixSet(objs["matrix"][i], r, c, v)
        IN  /\ Step
            /\ objs' = [objs EXCEPT !["matrix"][i] = res.obj]
            /\ last' = Call("matrix_set", i, i, r, c, DefaultColor, v,
                            res.err, res.evs)
            /\ UNCHANGED << fbs, cbuf, dbuf, oom, tri, bary, scene, mats, shader, model, disp >>

\* m[r][c] = v with any row index up to one past ORDER.
MatrixRowWrite ==
    \E i \in Slots, r \in 0..(ORDER + 1), c \in {0, ORDER - 1}, v \in {2, 3} :
        LET res == MatrixSet(objs["matrix"][i], r, c, v)
        IN  /\ Step
            /\ objs' = [objs EXCEPT !["matrix"][i] = res.obj]
            /\ last' = Call("matrix_row", i, i, r, c, DefaultColor, v,
                            res.err, res.evs)
            /\ UNCHANGED << fbs, cbuf, dbuf, oom, tri, bary, scene, mats,
                            shader, model, disp >>

\* ------------------------------------------------- shader operations
Barycentric ==
    /\ ~bary.called
    /\ bary' = GetBarycentricCoord(tri.p0, tri.p1, tri.p2, tri.p)
    /\ steps' = steps + 1
    /\ last' = Call("get_barycentric_coord", 0, 0, 0, 0, DefaultColor, 0,
                    "none", << >>)
    /\ UNCHANGED << fbs, cbuf, dbuf, oom, objs, tri, scene, mats, shader, model, disp >>

\* --------------------------------------------------- draw operations
DrawTriangle ==
    \E i \in Targets, k \in TriIds :
        LET r == Triangle(fbs[i], DrawTris[k])
        IN  /\ Len(scene[i].tris) < MaxDraws /\ scene[i].line = << >>
            /\ steps' = steps + 1
            /\ fbs' = [fbs EXCEPT ![i] = r.obj]
            /\ scene' = [scene EXCEPT ![i].tris = Append(@, k)]
            /\ last' = Call("triangle", i, k, 0, 0, DrawTris[k].color, 0,
                            r.err, r.evs)
            /\ UNCHANGED << cbuf, dbuf, oom, objs, tri, bary, mats, shader, model, disp >>

\* A line between two pixels of a framebuffer nothing was drawn into yet.
DrawLine ==
    \E i \in Targets, x0 \in 0..(DrawDim - 1), y0 \in 0..(DrawDim - 1),
       x1 \in 0..(DrawDim - 1), y1 \in 0..(DrawDim - 1) :
        LET r == Line(fbs[i], x0, y0, x1, y1, "GREEN")
        IN  /\ scene[i].tris = << >> /\ scene[i].line = << >>
            /\ steps' = steps + 1
            /\ fbs' = [fbs EXCEPT ![i] = r.obj]
            /\ scene' = [scene EXCEPT ![i].line = << x0, y0, x1, y1 >>]
            /\ last' = Call("line", i, 0, x0, y0, "GREEN", 0, r.err, r.evs)
            /\ UNCHANGED << cbuf, dbuf, oom, objs, tri, bary, mats, shader, model, disp >>

\* --------------------------------------------------- matrix operations
Receiver(r) == IF r = "m" THEN mats.m ELSE mats.ret

\* A call on receiver r returned (or threw) res: the result goes to ret, m is
\* not written.
MatCall(op, r, args, res) ==
    /\ Step
    /\ mats' = [mats EXCEPT !.ret = IF res.err = "none" THEN res.obj ELSE @]
    /\ last' = Call(op, r, 0, args, 0, DefaultColor, DefaultDepth, res.err,
                    << >>)
    /\ UNCHANGED << fbs, cbuf, dbuf, oom, objs, tri, bary, scene, shader, model, disp >>

\* operation op on m, with right operand b, scalar x and the vector v: m
\* and v are as the operation leaves them, a matrix returned goes to ret.
ArithCall(op, b, x) ==
    LET r == Arith(op, mats.m, b, x, mats.v)
    IN  /\ Step
        /\ mats' = [m |-> r.obj.m, v |-> r.obj.v,
                    ret |-> IF r.obj.out.kind = "matrix" THEN r.obj.out.m
                            ELSE mats.ret]
        /\ last' = Call(op, 0, 0, [b |-> b, x |-> x, out |-> r.obj.out], 0,
                        DefaultColor, DefaultDepth, r.err, << >>)
        /\ UNCHANGED << fbs, cbuf, dbuf, oom, objs, tri, bary, scene, shader, model, disp >>

MatArith ==
    \E op \in MatrixOps, b \in ArithInputs : ArithCall(op, b, FInt(2))

ScalarArith ==
    \E op \in ScalarOps, x \in Scalars : ArithCall(op, Identity4f, x)

VectorArith == \E op \in VectorOps : ArithCall(op, Identity4f, FInt(2))

MatInverse ==
    \E r \in Receivers : MatCall("inverse", r, << >>, Inverse(Receiver(r)))

MatTranslate ==
    \E r \in Receivers, t \in Offsets :
        MatCall("translate", r, t, Translate(Receiver(r), t[1], t[2], t[3]))

MatScale ==
    \E r \in Receivers, f \in Factors :
        MatCall("scale", r, << f >>, Scale(Receiver(r), f))

MatScale3 ==
    \E r \in Receivers, f \in Factors3 :
        MatCall("scale3", r, f, Scale3(Receiver(r), f[1], f[2], f[3]))

MatRotate ==
    \E r \in Receivers, t \in Turns :
        MatCall("rotate", r, t, Rotate(Receiver(r), t[1], t[2], t[3], t[4]))

\* ------------------------------------------------- shader operations
\* vertex() on the face, with the matrices the shader holds.
ShadeVertex ==
    LET r == ShaderVertex(shader, shader.face)
    IN  /\ Step
        /\ shader' = [shader EXCEPT !.face = r.obj.face, !.out = r.obj.out]
        /\ last' = Call("vertex", 0, 0, 0, 0, DefaultColor, DefaultDepth,
                        r.err, << >>)
        /\ UNCHANGED << fbs, cbuf, dbuf, oom, objs, tri, bary, scene, mats,
                        model, disp >>

\* interpolate_color() of the colors of the face's vertices.
ShadeColor ==
    \E w \in WeightSets :
        /\ Step
        /\ shader' = [shader EXCEPT
                        !.w = w,
                        !.color = InterpolateColor(shader.face.v0.color,
                                                   shader.face.v1.color,
                                                   shader.face.v2.color, w,
                                                   shader.face.normal)]
        /\ last' = Call("interpolate_color", 0, 0, 0, 0, DefaultColor,
                        DefaultDepth, "none", << >>)
        /\ UNCHANGED << fbs, cbuf, dbuf, oom, objs, tri, bary, scene, mats,
                        model, disp >>

\* ------------------------------------------------- model operations
\* model_t(obj_path, mtl_path) on the file.
LoadModel ==
    LET r == Load(model.file)
    IN  /\ Step
        /\ ~model.loaded
        /\ model' = [model EXCEPT !.loaded = r.err = "none", !.m = r.obj]
        /\ last' = Call("model_t", 0, 0, 0, 0, DefaultColor, DefaultDepth,
                        r.err, << >>)
        /\ UNCHANGED << fbs, cbuf, dbuf, oom, objs, tri, bary, scene, mats,
                        shader, disp >>

\* ------------------------------------------------ display operations
\* display_t(framebuffer, camera, event_callback), with the call of SDL
\* that fails, if any.
DisplayConstruct ==
    \E fails \in CtorFailures :
        /\ disp.pc = "none"
        /\ disp' = Display("constructed", DisplayCtor(fails).calls,
                           DisplayCtor(fails).sdl_window,
                           DisplayCtor(fails).font)
        /\ UNCHANGED << fbs, cbuf, dbuf, oom, objs, tri, bary, scene, mats,
                        shader, model, last, steps >>

\* ~display_t(), once loop() is not running.
DisplayDestroy ==
    /\ disp.pc \in {"constructed", "returned", "thrown"}
    /\ disp' = [disp EXCEPT !.pc = "destroyed",
                            !.calls = disp.calls \o DisplayDtor]
    /\ UNCHANGED << fbs, cbuf, dbuf, oom, objs, tri, bary, scene, mats,
                    shader, model, last, steps >>

\* loop() is called on a display whose constructor succeeded; and
\* while (is_should_quit == false), at most MaxIters times.
LoopTest ==
    /\ disp.pc \in {"constructed", "test"}
    /\ disp.font = "valid"
    /\ disp.is_should_quit \/ disp.iter < MaxIters
    /\ disp' = IF disp.is_should_quit THEN [disp EXCEPT !.pc = "returned"]
               ELSE [disp EXCEPT !.pc = "input_handler",
                                 !.iter = disp.iter + 1, !.trace = << >>,
                                 !.queue = << >>, !.handled = << >>,
                                 !.evs = << >>]
    /\ UNCHANGED << fbs, cbuf, dbuf, oom, objs, tri, bary, scene, mats,
                    shader, model, last, steps >>

\* input_handler() on the events that are queued.
LoopInput ==
    \E queue \in Queues :
        /\ disp.pc = "input_handler"
        /\ disp' = [disp EXCEPT
                      !.pc = "clear",
                      !.trace = Append(disp.trace, "input_handler"),
                      !.queue = queue,
                      !.handled = InputHandler(disp.is_should_quit,
                                               queue).calls,
                      !.is_should_quit =
                          InputHandler(disp.is_should_quit,
                                       queue).is_should_quit]
        /\ UNCHANGED << fbs, cbuf, dbuf, oom, objs, tri, bary, scene, mats,
                        shader, model, last, steps >>

\* framebuffer.clear()
LoopClear ==
    /\ disp.pc = "clear"
    /\ fbs' = [fbs EXCEPT ![1] = FramebufferClear(fbs[1], DefaultColor,
                                                  DefaultDepth).obj]
    /\ disp' = [disp EXCEPT !.pc = "fill",
                            !.trace = Append(disp.trace, "clear")]
    /\ UNCHANGED << cbuf, dbuf, oom, objs, tri, bary, scene, mats, shader,
                    model, last, steps >>

\* fill() on the window surface; an exception of pixel() leaves loop().
LoopFill ==
    \E surface \in Surfaces :
        /\ disp.pc = "fill"
        /\ disp' = [disp EXCEPT
                      !.pc = IF Fill(fbs[1], surface).err = "none"
                             THEN "show_fps" ELSE "thrown",
                      !.trace = Append(disp.trace, "fill"),
                      !.evs = Fill(fbs[1], surface).obj]
        /\ UNCHANGED << fbs, cbuf, dbuf, oom, objs, tri, bary, scene, mats,
                        shader, model, last, steps >>

\* show_fps(fps): it throws when the text is not rendered.
LoopShowFps ==
    \E rendered \in BOOLEAN :
        /\ disp.pc = "show_fps"
        /\ disp' = [disp EXCEPT
                      !.pc = IF rendered THEN "present" ELSE "thrown",
                      !.trace = Append(disp.trace, "show_fps")]
        /\ UNCHANGED << fbs, cbuf, dbuf, oom, objs, tri, bary, scene, mats,
                        shader, model, last, steps >>

\* SDL_UpdateWindowSurface: loop() returns when it fails.
LoopPresent ==
    \E updated \in BOOLEAN :
        /\ disp.pc = "present"
        /\ disp' = [disp EXCEPT
                      !.pc = IF updated THEN "test" ELSE "returned",
                      !.trace = Append(disp.trace, "present")]
        /\ UNCHANGED << fbs, cbuf, dbuf, oom, objs, tri, bary, scene, mats,
                        shader, model, last, steps >>

Next ==
    \/ Construct
    \/ CopyConstruct
    \/ Assign
    \/ Clear
    \/ Pixel
    \/ DepthRefWrite

NextBuf ==
    \/ ColorConstruct
    \/ ColorCopyConstruct
    \/ ColorAssign
    \/ DepthConstruct
    \/ DepthCopyConstruct
    \/ DepthAssign

\* The framebuffer's operations; allocation always succeeds.
Spec == Init /\ [][Next]_vars

\* The operations of a buffer held by itself; an allocation may fail.
SpecBuf == InitOOM /\ [][NextBuf]_vars

NextAssign ==
    \/ ObjAssign
    \/ MatrixWrite
    \/ Assign
    \/ ColorAssign
    \/ DepthAssign

\* The copy-assignment operators of every type.
SpecAssign == InitAssign /\ [][NextAssign]_vars

NextDraw ==
    \/ DrawTriangle
    \/ DrawLine

\* Triangles drawn into a cleared 4x4 framebuffer.
SpecDraw == InitDraw /\ [][NextDraw]_vars

NextArith ==
    \/ MatArith
    \/ ScalarArith
    \/ VectorArith

SpecArith == InitArith /\ [][NextArith]_vars

NextShader ==
    \/ ShadeVertex
    \/ ShadeColor

SpecShader == InitShader /\ [][NextShader]_vars

NextLoader == LoadModel

SpecLoader == InitLoader /\ [][NextLoader]_vars

NextDisplay ==
    \/ DisplayConstruct
    \/ DisplayDestroy
    \/ LoopTest
    \/ LoopInput
    \/ LoopClear
    \/ LoopFill
    \/ LoopShowFps
    \/ LoopPresent

SpecDisplay == InitDisplay /\ [][NextDisplay]_vars

\* loop() runs on: no step of it waits for anything but the calls it makes.
LoopRuns ==
    \/ LoopTest
    \/ LoopInput
    \/ LoopClear
    \/ LoopFill
    \/ LoopShowFps
    \/ LoopPresent

SpecDisplayFair == SpecDisplay /\ WF_vars(LoopRuns)

NextIndex == MatrixRowWrite

SpecIndex == Init /\ [][NextIndex]_vars

NextInverse == MatInverse

SpecInverse == InitInverse /\ [][NextInverse]_vars

NextTransform ==
    \/ MatTranslate
    \/ MatScale
    \/ MatScale3
    \/ MatRotate

SpecTransform == InitTransform /\ [][NextTransform]_vars

NextBary == Barycentric

\* The barycentric test on every triangle and point of BaryPoints.
SpecBary == InitBary /\ [][NextBary]_vars

\* ================================================================ claims
\* The step just taken is a call of op.
Called(op) == steps' = steps + 1 /\ last'.op = op

Cells(f) == {p \in Coords \X Coords : p[1] < f.width /\ p[2] < f.height}

\* C1: pixel(x, y, color, depth) with x >= width or y >= height reports an
\* invalid-argument error and changes no cell of either buffer, for every
\* framebuffer size and every out-of-range coordinate.
C1_PixelOutOfRangeRejected ==
    [][(/\ Called("pixel")
        /\ \/ last'.x >= fbs[last'.i].width
           \/ last'.y >= fbs[last'.i].height)
       => /\ last'.err = "invalid_argument"
          /\ fbs' = fbs]_vars

\* An out-of-range pixel() on a framebuffer that has cells was rejected.
C1_Witness ==
    /\ last.op = "pixel"
    /\ last.err = "invalid_argument"
    /\ fbs[last.i].width > 0 /\ fbs[last.i].height > 0
    /\ last.x >= fbs[last.i].width \/ last.y >= fbs[last.i].height

\* C2: a successful pixel(x, y, color, depth) sets color(x, y) and depth(x, y)
\* and changes no other cell, nor the width or height; and no call of pixel,
\* successful or not, changes the color buffer without the depth buffer
\* holding the given depth at (x, y).
C2_PixelUpdatesBoth ==
    [][Called("pixel") =>
        LET i == last'.i
            x == last'.x
            y == last'.y
            old == fbs[i]
            new == fbs'[i]
        IN /\ last'.err = "none" =>
                /\ ColorAt(new.color_buffer, x, y) = last'.c
                /\ DepthAt(new.depth_buffer, x, y) = last'.d
                /\ \A p \in Cells(old) : p # << x, y >> =>
                      /\ ColorAt(new.color_buffer, p[1], p[2])
                           = ColorAt(old.color_buffer, p[1], p[2])
                      /\ DepthAt(new.depth_buffer, p[1], p[2])
                           = DepthAt(old.depth_buffer, p[1], p[2])
                /\ new.width = old.width /\ new.height = old.height
                /\ new.color_buffer.width = old.color_buffer.width
                /\ new.color_buffer.height = old.color_buffer.height
                /\ new.depth_buffer.width = old.depth_buffer.width
                /\ new.depth_buffer.height = old.depth_buffer.height
           /\ \A s \in Slots \ {i} : fbs'[s] = fbs[s]
           /\ new.color_buffer # old.color_buffer =>
                /\ last'.err = "none"
                /\ DepthAt(new.depth_buffer, x, y) = last'.d]_vars

\* A pixel was written white into a framebuffer that keeps a black cell.
C2_Witness ==
    /\ last.op = "pixel" /\ last.err = "none" /\ last.c = "WHITE"
    /\ last.d = 1
    /\ ColorAt(fbs[last.i].color_buffer, last.x, last.y) = "WHITE"
    /\ \E p \in Cells(fbs[last.i]) :
          ColorAt(fbs[last.i].color_buffer, p[1], p[2]) = "BLACK"

\* C3: pixel and clear called with a NaN depth report an error and leave the
\* color buffer and the depth buffer as they were.
C3_NaNDepthRejected ==
    [][((Called("pixel") \/ Called("clear")) /\ isnan(last'.d))
       => /\ last'.err # "none"
          /\ fbs' = fbs]_vars

\* clear() with a NaN depth and a color the buffer does not hold was
\* rejected.
C3_Witness ==
    /\ last.op = "clear" /\ isnan(last.d) /\ last.err # "none"
    /\ last.c = "WHITE"
    /\ \E p \in Cells(fbs[last.i]) :
          ColorAt(fbs[last.i].color_buffer, p[1], p[2]) = "BLACK"

\* C4: no cell of a framebuffer's depth buffer ever holds NaN.
C4_DepthNeverNaN ==
    \A s \in Slots : \A k \in DOMAIN fbs[s].depth_buffer.arr :
       ~ isnan(fbs[s].depth_buffer.arr[k])

\* C5: after a successful clear(color, depth) every cell (x, y) with
\* x < width and y < height has that color and that depth, and the width and
\* height are unchanged.
C5_ClearResetsAll ==
    [][(Called("clear") /\ last'.err = "none") =>
        LET old == fbs[last'.i]
            new == fbs'[last'.i]
        IN /\ new.width = old.width /\ new.height = old.height
           /\ \A p \in Cells(new) :
                 /\ ColorAt(new.color_buffer, p[1], p[2]) = last'.c
                 /\ DepthAt(new.depth_buffer, p[1], p[2]) = last'.d]_vars

\* A framebuffer of more than one row was cleared to white and depth 1.
C5_Witness ==
    /\ last.op = "clear" /\ last.err = "none"
    /\ last.c = "WHITE" /\ last.d = 1
    /\ fbs[last.i].width > 0 /\ fbs[last.i].height > 1

\* The width and height of a framebuffer are those of its two buffers.
DimsAgree(f) ==
    /\ f.width = f.color_buffer.width /\ f.width = f.depth_buffer.width
    /\ f.height = f.color_buffer.height /\ f.height = f.depth_buffer.height

\* C6: in every reachable state (after construction, copy-construction and
\* copy-assignment) a framebuffer's width and height equal those of its color
\* buffer and of its depth buffer; and a copy-assignment from a framebuffer of
\* another width or height is rejected with an invalid-argument error and
\* leaves the target unchanged.
C6_DimensionsAgree ==
    /\ [](\A s \in Slots : DimsAgree(fbs[s]))
    /\ [][(/\ Called("assign")
           /\ \/ fbs[last'.i].width # fbs[last'.j].width
              \/ fbs[last'.i].height # fbs[last'.j].height)
          => /\ last'.err = "invalid_argument"
             /\ fbs' = fbs]_vars

\* A copy-assignment between framebuffers of equal width and different
\* height was rejected.
C6_Witness ==
    /\ last.op = "assign" /\ last.err = "invalid_argument"
    /\ fbs[last.i].width = fbs[last.j].width
    /\ fbs[last.i].width > 0
    /\ fbs[last.i].height # fbs[last.j].height

\* The buffers of the framebuffers a copy read from and wrote to.
CopyOps == {"copy_ctor", "assign"}

\* C7: a copy of a color or depth buffer gives the target the source's width
\* and height and equal elements at every index in 0..width*height-1, and
\* reads the source and writes the target at those indices only.
C7_DeepCopyInBounds ==
    (last.op \in CopyOps /\ last.evs # << >>) =>
        LET src == fbs[last.j]
            dst == fbs[last.i]
            n == src.width * src.height
        IN /\ \A k \in 1..Len(last.evs) :
                 last.evs[k].kind \in {"read", "write"} => last.evs[k].hi <= n
           /\ last.err = "none" =>
                 /\ dst.color_buffer.width = src.color_buffer.width
                 /\ dst.color_buffer.height = src.color_buffer.height
                 /\ dst.depth_buffer.width = src.depth_buffer.width
                 /\ dst.depth_buffer.height = src.depth_buffer.height
                 /\ \A k \in 0..(n - 1) :
                       /\ dst.color_buffer.arr[k] = src.color_buffer.arr[k]
                       /\ dst.depth_buffer.arr[k] = src.depth_buffer.arr[k]

ColorOps == {"color_ctor", "color_copy_ctor", "color_assign"}
DepthOps == {"depth_ctor", "depth_copy_ctor", "depth_assign"}

\* The buffer the last buffer operation constructed or assigned to.
LastBuffer == IF last.op \in ColorOps THEN cbuf ELSE dbuf

\* C8: when the allocation of a buffer's storage fails, the failure is
\* reported to the caller, no element is read or written through an
\* unallocated or released array, and the recorded width*height does not
\* exceed the size of the storage held.
C8_AllocFailureSafe ==
    (last.op \in ColorOps \cup DepthOps /\ LastBuffer.ptr # "valid") =>
        /\ last.err # "none"
        /\ \A k \in 1..Len(last.evs) :
              last.evs[k].hi > last.evs[k].lo => last.evs[k].ptr = "valid"
        /\ LastBuffer.width * LastBuffer.height <= LastBuffer.cap

\* The last call assigned an object to itself.
SelfAssigned(call) ==
    \/ call.op \in Types \cup {"assign"} /\ call.i = call.j
    \/ call.op \in {"color_assign", "depth_assign"} /\ call.j = 0

Unchanged == fbs' = fbs /\ objs' = objs /\ cbuf' = cbuf /\ dbuf' = dbuf

Collinear(t) ==
    (t.p1.x - t.p0.x) * (t.p2.y - t.p0.y)
        = (t.p1.y - t.p0.y) * (t.p2.x - t.p0.x)

\* C10: for a triangle of collinear p0, p1, p2 the barycentric test returns
\* success = false for every point p, and makes no division by zero.
C10_CollinearRejected ==
    bary.called /\ Collinear(tri)
        => ~bary.success /\ ~(bary.divided /\ bary.deno = 0)

\* Twice the signed area of the triangle, and the numerators of s and t, in
\* exact arithmetic and with the sign of the area removed.
Area2(t) ==
    (t.p1.x - t.p0.x) * (t.p2.y - t.p0.y)
        - (t.p1.y - t.p0.y) * (t.p2.x - t.p0.x)
ExactS(t) ==
    Sgn(Area2(t)) * ((t.p2.y - t.p0.y) * (t.p.x - t.p0.x)
                        - (t.p2.x - t.p0.x) * (t.p.y - t.p0.y))
ExactT(t) ==
    Sgn(Area2(t)) * ((t.p1.x - t.p0.x) * (t.p.y - t.p0.y)
                        - (t.p1.y - t.p0.y) * (t.p.x - t.p0.x))

\* p is strictly inside the triangle / in the closed triangle.
StrictlyInside(t) ==
    ExactS(t) > 0 /\ ExactT(t) > 0 /\ ExactS(t) + ExactT(t) < Abs(Area2(t))
InClosedTriangle(t) ==
    ExactS(t) >= 0 /\ ExactT(t) >= 0 /\ ExactS(t) + ExactT(t) <= Abs(Area2(t))

\* C11: for a non-degenerate triangle and a point p strictly inside it, the
\* barycentric test divides by a non-zero deno and returns success = true,
\* that is weights (1 - s - t, s, t) that all lie in [0, 1].
C11_InsideAccepted ==
    bary.called /\ Area2(tri) # 0 /\ StrictlyInside(tri)
        => bary.divided /\ bary.success

\* C12: for a non-degenerate triangle of either winding order, the
\* barycentric test returns success = true exactly for the points of the
\* closed triangle: interior, edges and vertices.
C12_SuccessIffInClosedTriangle ==
    bary.called /\ Area2(tri) # 0
        => (bary.success <=> InClosedTriangle(tri))

\* The barycentric test's arguments for triangle t and pixel p.
At(t, p) == [p0 |-> t.v0, p1 |-> t.v1, p2 |-> t.v2, p |-> p]
Covers(t, p) == Area2(At(t, p)) # 0 /\ InClosedTriangle(At(t, p))
\* The depth interpolate_depth gives triangle t at pixel p.
DepthOf(t, p) ==
    FloatBits(InterpolateDepth(t.v0.z, t.v1.z, t.v2.z,
                  Weights(GetBarycentricCoord(t.v0, t.v1, t.v2, p))))
FbPixels(f) == {Point(x, y) : x \in 0..(f.width - 1), y \in 0..(f.height - 1)}
\* Every depth of triangle a is nearer than every depth of triangle b.
Nearer(a, b) ==
    Max3(a.v0.z, a.v1.z, a.v2.z) < Min3(b.v0.z, b.v1.z, b.v2.z)
DrawnInto(i) == [k \in 1..Len(scene[i].tris) |-> DrawTris[scene[i].tris[k]]]

\* C13: two triangles A, B at different depths drawn into a cleared
\* framebuffer give the same colors and depths in the order A, B as in the
\* order B, A, and every pixel of both triangles shows the color and the
\* interpolated depth of the nearer one.
C13_DepthTestOrderIndependent ==
    \A i \in Targets :
        LET f == fbs[i]
            ts == DrawnInto(i)
        IN  Len(ts) = 2 /\ (Nearer(ts[1], ts[2]) \/ Nearer(ts[2], ts[1]))
            => LET near == IF Nearer(ts[1], ts[2]) THEN ts[1] ELSE ts[2]
                   swapped == Triangle(Triangle(Cleared(scene[i].color),
                                                ts[2]).obj, ts[1]).obj
               IN  /\ f = swapped
                   /\ \A p \in FbPixels(f) :
                        Covers(ts[1], p) /\ Covers(ts[2], p)
                          => /\ ColorAt(f.color_buffer, p.x, p.y) = near.color
                             /\ DepthAt(f.depth_buffer, p.x, p.y)
                                    = DepthOf(near, p)

\* C14: a triangle filled into a cleared framebuffer colors exactly the
\* pixels of the framebuffer on or inside it; every other pixel keeps the
\* clear color and the clear depth.
C14_FillExactlyTheTriangle ==
    \A i \in Targets :
        LET f == fbs[i]
            ts == DrawnInto(i)
        IN  Len(ts) = 1 /\ Area2(At(ts[1], Point(0, 0))) # 0
            => \A p \in FbPixels(f) :
                 IF InClosedTriangle(At(ts[1], p))
                 THEN ColorAt(f.color_buffer, p.x, p.y) = ts[1].color
                 ELSE /\ ColorAt(f.color_buffer, p.x, p.y) = scene[i].color
                      /\ DepthAt(f.depth_buffer, p.x, p.y) = FarDepth

\* C15: drawing a triangle of no area changes no pixel of either buffer and
\* reports no error.
C15_ZeroAreaNoOp ==
    [][steps' = steps + 1 /\ last'.op = "triangle"
          /\ Area2(At(DrawTris[last'.j], Point(0, 0))) = 0
          => fbs' = fbs /\ last'.err = "none"]_vars

\* C16: drawing a triangle reports no error and calls pixel() only at
\* pixels of the framebuffer that are in the bounding box of the triangle.
C16_FillStaysInBounds ==
    [][steps' = steps + 1 /\ last'.op = "triangle"
          => /\ last'.err = "none"
             /\ \A n \in 1..Len(last'.evs) :
                  LET e == last'.evs[n]
                      f == fbs[last'.i]
                      t == DrawTris[last'.j]
                  IN  /\ e.err = "none"
                      /\ e.x \in 0..(f.width - 1) /\ e.y \in 0..(f.height - 1)
                      /\ e.x >= Min3(t.v0.x, t.v1.x, t.v2.x)
                      /\ e.x <= Max3(t.v0.x, t.v1.x, t.v2.x)
                      /\ e.y >= Min3(t.v0.y, t.v1.y, t.v2.y)
                      /\ e.y <= Max3(t.v0.y, t.v1.y, t.v2.y)]_vars

\* A triangle reaching from negative coordinates to beyond the framebuffer
\* was drawn and wrote pixels.
C16_Witness ==
    /\ last.op = "triangle" /\ last.j \in {2, 8}
    /\ Len(last.evs) > 0
    /\ Min3(DrawTris[last.j].v0.x, DrawTris[last.j].v1.x,
            DrawTris[last.j].v2.x) < 0
    /\ Max3(DrawTris[last.j].v0.x, DrawTris[last.j].v1.x,
            DrawTris[last.j].v2.x) >= DrawDim

\* The pixels pixel() was called at.
PixelSet(evs) == {Point(evs[n].x, evs[n].y) : n \in 1..Len(evs)}

\* C17: a line between two pixels of the framebuffer and the line between
\* the same pixels in the other order write the same set of pixels, without
\* an error, and the set holds both end points.
C17_LineSymmetric ==
    [][steps' = steps + 1 /\ last'.op = "line"
          => LET l == scene'[last'.i].line
                 f == fbs[last'.i]
                 back == Line(f, l[3], l[4], l[1], l[2], last'.c)
             IN  /\ last'.err = "none" /\ back.err = "none"
                 /\ PixelSet(last'.evs) = PixelSet(back.evs)
                 /\ fbs'[last'.i] = back.obj
                 /\ Point(l[1], l[2]) \in PixelSet(last'.evs)
                 /\ Point(l[3], l[4]) \in PixelSet(last'.evs)]_vars

\* A steep line drawn from its upper right end to its lower left end.
C17_Witness ==
    /\ last.op = "line" /\ last.err = "none"
    /\ scene[last.i].line = << 3, 0, 2, 3 >>
    /\ PixelSet(last.evs)
         = {Point(3, 0), Point(3, 1), Point(2, 2), Point(2, 3)}

\* The matrix a matrix call was made on, seen from the step of the call.
CalledOn == IF last'.i = "m" THEN mats.m ELSE mats.ret

MatCalled(op) == steps' = steps + 1 /\ last'.op = op

\* C18: for every non-singular matrix M, M * M.inverse() is the identity and
\* M.inverse().inverse() is M, both as operator== compares (every entry
\* within epsilon), and inverse() leaves M unchanged.
C18_InverseRoundTrip ==
    [][MatCalled("inverse") /\ last'.err = "none"
         => LET inv == mats'.ret
                back == Inverse(inv)
            IN  /\ MatEq(MatMul(CalledOn, inv).obj, Identity4f)
                /\ back.err = "none"
                /\ MatEq(back.obj, CalledOn)
                /\ mats'.m = mats.m]_vars

\* The determinant in exact arithmetic, for the matrices whose entries are
\* multiples of 2^-MaxShift and, scaled to integers, at most MaxEntry: the
\* entries times 2^Shift, and the determinant of these integers.
MaxShift == 8
MaxEntry == 256

Shift(mat) ==
    LET es == {-mat[i][j].e : i \in Idx, j \in Idx} \cup {0}
    IN  CHOOSE k \in es : \A x \in es : x <= k

HasExactDet(mat) ==
    /\ ~HasNaNsF(mat)
    /\ Shift(mat) <= MaxShift
    /\ \A i \in Idx, j \in Idx :
          mat[i][j].m * 2 ^ (mat[i][j].e + Shift(mat)) <= MaxEntry

Scaled(mat) ==
    [i \in Idx |-> [j \in Idx |->
        mat[i][j].sign * mat[i][j].m * 2 ^ (mat[i][j].e + Shift(mat))]]

RECURSIVE IntDet(_, _)
IntDet(a, n) ==
    LET minor(i) == [r \in 0..(n - 2) |-> [c \in 0..(n - 2) |->
                        a[r + 1][IF c < i THEN c ELSE c + 1]]]
        term(i) == (IF i % 2 = 0 THEN 1 ELSE -1) * a[0][i]
                      * IntDet(minor(i), n - 1)
    IN  IF n = 1 THEN a[0][0]
        ELSE IF n = 2 THEN term(0) + term(1)
        ELSE IF n = 3 THEN term(0) + term(1) + term(2)
        ELSE term(0) + term(1) + term(2) + term(3)

\* |det| <= 2^-23, the determinant being IntDet / 2^(4 * Shift).
NoInverse(mat) ==
    IF ORDER * Shift(mat) < Mantissa - 1
    THEN IntDet(Scaled(mat), ORDER) = 0
    ELSE Abs(IntDet(Scaled(mat), ORDER))
            <= 2 ^ (ORDER * Shift(mat) - (Mantissa - 1))

\* C19: inverse() throws the singular-matrix error exactly when the
\* determinant of the matrix is at most epsilon in magnitude (0 in
\* particular), returns nothing then, and succeeds otherwise.
C19_SingularIffNoInverse ==
    [][MatCalled("inverse") /\ HasExactDet(CalledOn)
         => /\ last'.err = "runtime_error" <=> NoInverse(CalledOn)
            /\ NoInverse(CalledOn) => mats'.ret = mats.ret
            /\ ~NoInverse(CalledOn) => last'.err = "none"]_vars

\* What T * M is for a translation T by t: t times the bottom row of M added
\* to the rows above it.
Translated(mat, t) ==
    [i \in Idx |-> [j \in Idx |->
        IF i < 3 THEN FAddF(mat[i][j], FMulF(t[i + 1], mat[3][j]))
        ELSE mat[i][j]]]

\* What T * M is for a scale T by f: the rows above the bottom one times f.
Scaled3(mat, f) ==
    [i \in Idx |-> [j \in Idx |->
        IF i < 3 THEN FMulF(f[i + 1], mat[i][j]) ELSE mat[i][j]]]

\* The rotation by a multiple of a quarter turn about a coordinate axis, in
\* integers: e_j goes to n (n.e_j) + cos (e_j - n (n.e_j)) + sin (n x e_j),
\* n the axis of length one.
TurnOf(x, y, z, angle) ==
    LET n == << Sgn(x) * (IF x = 0 THEN 0 ELSE 1),
                Sgn(y) * (IF y = 0 THEN 0 ELSE 1),
                Sgn(z) * (IF z = 0 THEN 0 ELSE 1) >>
        c == IF angle = FZero THEN 1 ELSE IF angle = HalfPi THEN 0 ELSE -1
        s == IF angle = HalfPi THEN 1 ELSE 0
        e(j) == [i \in 1..3 |-> IF i = j THEN 1 ELSE 0]
        cross(a, b) == << a[2] * b[3] - a[3] * b[2],
                          a[3] * b[1] - a[1] * b[3],
                          a[1] * b[2] - a[2] * b[1] >>
        image(j) == [i \in 1..3 |->
                        n[i] * n[j] + c * (e(j)[i] - n[i] * n[j])
                            + s * cross(n, e(j))[i]]
    IN  [i \in Idx |-> [j \in Idx |->
            IF i < 3 /\ j < 3 THEN FInt(image(j + 1)[i + 1])
            ELSE Identity4f[i][j]]]

BottomRow(mat) == \E j \in Idx : mat[3][j] # FZero

OperandNaN ==
    \/ HasNaNsF(mats.m)
    \/ last'.op \in MatrixOps \ {"transpose", "inverse"}
          /\ HasNaNsF(last'.x.b)
    \/ last'.op \in ScalarOps /\ last'.x.x = FNaN
    \/ last'.op \in VectorOps /\ VecHasNaNs(mats.v)

ArithCalled ==
    steps' = steps + 1
        /\ last'.op \in MatrixOps \cup ScalarOps \cup VectorOps

\* C21: an arithmetic operation with a NaN in any operand, the left matrix
\* included, throws invalid_argument, changes no operand and returns
\* nothing.
C21_NaNOperandRejected ==
    [][ArithCalled /\ OperandNaN
         => /\ last'.err = "invalid_argument"
            /\ mats'.m = mats.m /\ mats'.v = mats.v
            /\ last'.x.out = NoOut]_vars

\* ------------------------------------------------- default_shader_t
\* The product of the shader's matrices, entry by entry.
Composed == ProductN(ProductN(shader.project, shader.view), shader.model)

\* Whether a vertex kept all but its position.
SameButCoord(a, b) ==
    a.normal = b.normal /\ a.texcoord = b.texcoord /\ a.color = b.color

\* C22: the face vertex() returns has the positions project * view * model
\* times the input's, the normalized cross product (v2 - v0) x (v1 - v0) of
\* these as its normal, and the input's texture coordinates, colors, vertex
\* normals and material; the input face is left as it was.
C22_VertexTransformsFace ==
    [][Called("vertex") /\ last'.err = "none"
         => /\ shader'.out.v0.coord = TimesColumn(Composed, shader.face.v0.coord)
            /\ shader'.out.v1.coord = TimesColumn(Composed, shader.face.v1.coord)
            /\ shader'.out.v2.coord = TimesColumn(Composed, shader.face.v2.coord)
            /\ shader'.out.normal
                 = NormalizeVec(Cross(VecMinus(shader'.out.v2.coord,
                                               shader'.out.v0.coord),
                                      VecMinus(shader'.out.v1.coord,
                                               shader'.out.v0.coord)))
            /\ SameButCoord(shader'.out.v0, shader.face.v0)
            /\ SameButCoord(shader'.out.v1, shader.face.v1)
            /\ SameButCoord(shader'.out.v2, shader.face.v2)
            /\ shader'.out.material = shader.face.material
            /\ shader'.face = shader.face]_vars

\* A face came back moved and with a normal that is along no axis.
C22_Witness ==
    /\ last.op = "vertex" /\ last.err = "none"
    /\ shader.out.v1.coord # shader.face.v1.coord
    /\ shader.out.normal # shader.face.normal
    /\ shader.out.normal[1] # FZero /\ shader.out.normal[2] # FZero

\* C30: interpolate_color returns alpha 255 and, per channel, 255 times the
\* weighted color times the intensity; the intensity being the constant 0,
\* the color returned is opaque black whatever the colors and the weights.
C30_InterpolateColorBlack ==
    [][Called("interpolate_color")
         => /\ shader'.color.a = Uint8Max
            /\ shader'.color.r
                 = Lit(Blend(shader.face.v0.color[1], shader.face.v1.color[1],
                             shader.face.v2.color[1], shader'.w), Intensity)
            /\ shader'.color.g
                 = Lit(Blend(shader.face.v0.color[2], shader.face.v1.color[2],
                             shader.face.v2.color[2], shader'.w), Intensity)
            /\ shader'.color.b
                 = Lit(Blend(shader.face.v0.color[3], shader.face.v1.color[3],
                             shader.face.v2.color[3], shader'.w), Intensity)
            /\ shader'.color = ARGB(255, 0, 0, 0)]_vars

\* White vertices were interpolated.
C30_Witness ==
    /\ last.op = "interpolate_color"
    /\ shader.face = Flat
    /\ shader.w = << Half, Quarter, Quarter >>
    /\ shader.color.a = 255

\* ---------------------------------------------------- model_t, box
\* Whether p lies between the corners of the box on every axis.
InBox(box, p) ==
    \A a \in 1..3 : SLeq(box.min[a], p[a]) /\ SLeq(p[a], box.max[a])

\* C23: the box of a loaded model has min <= max on every axis and holds
\* the position of every vertex of every face.
C23_BoxHoldsMesh ==
    model.loaded
        => /\ \A a \in 1..3 : SLeq(model.m.box.min[a], model.m.box.max[a])
           /\ \A k \in 1..Len(model.m.face) :
                 /\ InBox(model.m.box, model.m.face[k].v0.coord)
                 /\ InBox(model.m.box, model.m.face[k].v1.coord)
                 /\ InBox(model.m.box, model.m.face[k].v2.coord)

\* ------------------------------------------------------------ display_t
\* The places of a step in a trace of steps.
Places(trace, step) == {k \in 1..Len(trace) : trace[k] = step}

\* Whether a comes before b in a trace that holds each once.
Before(trace, a, b) ==
    \A i \in Places(trace, a), j \in Places(trace, b) : i < j

Once(trace, step) == Cardinality(Places(trace, step)) = 1

\* C24: an iteration of loop() polls the input, draws the frame into the
\* framebuffer, blits the color buffer, overlays the FPS and presents, in
\* this order, and clears the framebuffer once, before the drawing.
C24_LoopDrawsThenBlits ==
    disp.pc = "test"
        => /\ \A step \in {"input_handler", "clear", "draw", "fill",
                           "show_fps", "present"} : Once(disp.trace, step)
           /\ Before(disp.trace, "input_handler", "draw")
           /\ Before(disp.trace, "clear", "draw")
           /\ Before(disp.trace, "draw", "fill")
           /\ Before(disp.trace, "fill", "show_fps")
           /\ Before(disp.trace, "show_fps", "present")

\* input_handler() was called in this step.
Handled == disp.pc = "input_handler" /\ disp'.pc = "clear"

\* loop() is left in this step.
Left == disp.pc # disp'.pc /\ disp'.pc \in {"returned", "thrown"}

\* What C25 says of the flag and of the callbacks: ESC and SDL_QUIT set the
\* flag and nothing else does, nothing resets it, no iteration starts once
\* it is set, and a key that is not ESC calls at most one callback.
FlagAndCallbacks ==
    /\ Handled
         => /\ disp'.is_should_quit
                  = (disp.is_should_quit
                       \/ \E k \in 1..Len(disp'.queue) :
                             disp'.queue[k] \in {KeyDown("SDLK_ESCAPE"),
                                                 Other("SDL_QUIT")})
            /\ Len(disp'.handled) = Len(disp'.queue)
            /\ \A k \in 1..Len(disp'.queue) :
                  /\ Len(disp'.handled[k]) <= 1
                  /\ disp'.queue[k] = KeyDown("SDLK_ESCAPE")
                       => disp'.handled[k] = << >>
    /\ ~Handled => disp'.is_should_quit = disp.is_should_quit
    /\ disp.is_should_quit => disp'.is_should_quit /\ disp'.iter = disp.iter

\* C25 as it is claimed: with the flag set, loop() is left only by
\* returning, after the five steps of the iteration.
C25_QuitFinishesIteration ==
    [][/\ FlagAndCallbacks
       /\ disp.is_should_quit /\ Left
            => disp'.pc = "returned" /\ disp'.trace = LoopSteps]_vars

\* C25: ESC and SDL_QUIT alone set is_should_quit and nothing resets it;
\* another key calls at most one callback; with the flag set loop() starts
\* no other iteration, returns only after the five steps of the iteration,
\* and is left before that only by an exception of fill() or show_fps();
\* and it is left.
C25_QuitEndsLoop ==
    /\ [][/\ FlagAndCallbacks
          /\ disp.is_should_quit /\ Left
               => \/ disp'.pc = "returned" /\ disp'.trace = LoopSteps
                  \/ /\ disp'.pc = "thrown"
                     /\ disp'.trace[Len(disp'.trace)] \in {"fill", "show_fps"}
                     /\ disp'.trace = SubSeq(LoopSteps, 1, Len(disp'.trace))
         ]_vars
    /\ (disp.is_should_quit ~> disp.pc \in {"returned", "thrown", "destroyed"})

\* ESC came before another key, and loop() returned after the iteration.
C25_Witness ==
    /\ disp.pc = "returned"
    /\ disp.is_should_quit
    /\ disp.trace = LoopSteps
    /\ disp.queue = << KeyDown("SDLK_ESCAPE"), KeyDown("SDLK_a") >>
    /\ disp.handled = << << >>, << "key_a" >> >>

\* fill() ran on a 32-bit window surface whose locks all succeeded.
Filled ==
    /\ disp.pc = "show_fps"
    /\ \E k \in 1..Len(disp.evs) : disp.evs[k].call = "SDL_MapRGBA"
    /\ \A k \in 1..Len(disp.evs) : disp.evs[k].call # "SDL_LockSurface failed"

\* C26: fill() writes every pixel (i, j) of the framebuffer once, at (i, j)
\* of the surface, with the R, G, B and A of its color given to SDL_MapRGBA
\* as red, green, blue and alpha.
C26_FillKeepsChannels ==
    Filled
        => \A i \in 0..(fbs[1].width - 1), j \in 0..(fbs[1].height - 1) :
              /\ Cardinality({k \in 1..Len(disp.evs) :
                                /\ disp.evs[k].call = "SDL_MapRGBA"
                                /\ disp.evs[k].x = i /\ disp.evs[k].y = j}) = 1
              /\ \A k \in 1..Len(disp.evs) :
                    /\ disp.evs[k].call = "SDL_MapRGBA"
                    /\ disp.evs[k].x = i /\ disp.evs[k].y = j
                    => disp.evs[k].rgba
                         = << Channel(ColorAt(fbs[1].color_buffer, i, j),
                                      COLOR_IDX_R),
                              Channel(ColorAt(fbs[1].color_buffer, i, j),
                                      COLOR_IDX_G),
                              Channel(ColorAt(fbs[1].color_buffer, i, j),
                                      COLOR_IDX_B),
                              Channel(ColorAt(fbs[1].color_buffer, i, j),
                                      COLOR_IDX_A) >>

\* The calls of a kind that pixel(x, y) made on the surface.
SurfaceCalls(call, x, y) ==
    {k \in 1..Len(disp.evs) :
        disp.evs[k].call = call /\ disp.evs[k].x = x /\ disp.evs[k].y = y}

\* C27: a call of pixel() whose lock succeeds unlocks the surface once,
\* whatever the bytes per pixel, and one whose lock fails neither writes nor
\* unlocks.
C27_LockIsReleased ==
    \A x \in 0..(MaxDim - 1), y \in 0..(MaxDim - 1) :
        /\ Cardinality(SurfaceCalls("SDL_UnlockSurface", x, y))
             = Cardinality(SurfaceCalls("SDL_LockSurface", x, y))
        /\ SurfaceCalls("SDL_LockSurface failed", x, y) # {}
             => /\ SurfaceCalls("SDL_MapRGBA", x, y) = {}
                /\ SurfaceCalls("SDL_UnlockSurface", x, y) = {}

\* The calls made with a name, and those of them that succeeded.
Made(call) == {k \in 1..Len(disp.calls) : disp.calls[k].call = call}
Succeeded(call) == {k \in Made(call) : disp.calls[k].ok}

\* Whether what acquire initialised is released once by release, after it,
\* and release is called for nothing else.
ReleasedOnce(acquire, release) ==
    /\ Cardinality(Made(release)) = Cardinality(Succeeded(acquire))
    /\ \A i \in Succeeded(acquire), j \in Made(release) : i < j

\* C28: after the constructor, whichever of its calls failed, and the
\* destructor, SDL, the window, TTF and the font are each released once if
\* they were initialised and not at all if they were not.
C28_ReleasedExactlyOnce ==
    disp.pc = "destroyed"
        => /\ ReleasedOnce("SDL_Init", "SDL_Quit")
           /\ ReleasedOnce("SDL_CreateWindow", "SDL_DestroyWindow")
           /\ ReleasedOnce("TTF_Init", "TTF_Quit")
           /\ ReleasedOnce("TTF_OpenFont", "TTF_CloseFont")

\* ------------------------------------------------ matrix_t, operator[]
\* C29: operator[] rejects every row index outside 0..3 with
\* invalid_argument, so the row of an index it accepts lies in the array.
C29_RowIndexInRange ==
    [][Called("matrix_row")
         => /\ last'.x \notin 0..(ORDER - 1) => last'.err = "invalid_argument"
            /\ last'.err = "none"
                 => \A n \in 1..Len(last'.evs) : ~Fault(last'.evs[n])]_vars

====
